---- MODULE Spec2Model ----
(***************************************************************************)
(* Model of the SoliDB Python driver's wire-protocol client                *)
(* (clients/PYTHON-client/solidb/client.py): the connection pool, its      *)
(* bring-up and teardown, round-robin selection, and the framed            *)
(* request/response exchange, under several caller threads and a peer that *)
(* may answer, close the stream or reset it.                               *)
(***************************************************************************)
EXTENDS Integers, Sequences, FiniteSets, TLC

\* ---------------------------------------------------------------- bounds
NThreads == 2
MaxPoolSize == 2
MaxOps == 2
MaxSeqOps == 4
MaxQuietOps == 4
MaxSocks == 4
MaxFaults == 1
MaxBody == 2
MaxHttpOps == 3
NWorkers == 2
MaxTasks == 2
MaxRounds == 2

\* ------------------------------------------------------ program constants
MAX_MESSAGE_SIZE == 16 * 1024 * 1024
HEADER_LEN == 4

VARIABLES
    pool_size,    \* self.pool_size, fixed at construction
    nthreads,     \* number of caller threads sharing the client
    lists,        \* heap of Python list objects: slot -> sequence of socket ids
    pool,         \* self._pool: the slot of the list it is bound to
    pool_index,   \* self._pool_index
    connected,    \* self.connected
    lock,         \* self._pool_lock: 0 when free, else the holding thread
    socks,        \* every connection the client opened, by id 1..Len(socks)
    th,           \* per-thread position and locals
    nreq,         \* request frames written so far (their ids)
    nops,         \* operations started so far
    budget,       \* operations the callers start in all
    nfaults,      \* faults injected so far
    xmark,        \* connections that existed when close() last returned
    authed,       \* connections on which an auth command has succeeded
    codec,        \* one run of the receive routine on a byte stream
    http,         \* the management (HTTP) side of the client object
    work          \* the example worker loops and the task list they poll

\* Everything but the connected flag and the run of the receive routine.
others == <<pool_size, nthreads, lists, pool, pool_index, lock,
            socks, th, nreq, nops, budget, nfaults, xmark, authed, http, work>>

\* The wire-protocol client, its peer and the receive routine.
wire == <<pool_size, nthreads, lists, pool, pool_index, connected, lock,
          socks, th, nreq, nops, budget, nfaults, xmark, authed, codec>>

vars == <<wire, http, work>>

Threads == 1..NThreads
Slots == 1..(NThreads + 1)
SockIds == 1..MaxSocks
\* Tokens the login endpoint hands out, and database names.
Tokens == {"tok1", "tok2"}
Dbs == {"db1", "db2"}
Workers == 1..NWorkers
Tasks == 1..MaxTasks

\* ------------------------------------------------------------ byte streams
\* A run of n bytes of the header ("h") or body ("b") of the response frame
\* to request rid; len is the length the header declares.
Seg(r, k, l, n) == [rid |-> r, kind |-> k, len |-> l, n |-> n]

RECURSIVE Total(_)
Total(q) == IF q = <<>> THEN 0 ELSE Head(q).n + Total(Tail(q))

RECURSIVE TakeB(_, _)
TakeB(q, k) ==
    IF k = 0 \/ q = <<>> THEN <<>>
    ELSE IF Head(q).n <= k THEN <<Head(q)>> \o TakeB(Tail(q), k - Head(q).n)
    ELSE <<[Head(q) EXCEPT !.n = k]>>

RECURSIVE DropB(_, _)
DropB(q, k) ==
    IF k = 0 \/ q = <<>> THEN q
    ELSE IF Head(q).n <= k THEN DropB(Tail(q), k - Head(q).n)
    ELSE <<[Head(q) EXCEPT !.n = @ - k]>> \o Tail(q)

\* data += packet: adjacent runs of the same frame part join.
RECURSIVE Cat(_, _)
Cat(a, b) ==
    IF b = <<>> THEN a
    ELSE IF a = <<>> THEN Cat(<<Head(b)>>, Tail(b))
    ELSE LET l == a[Len(a)]
             h == Head(b)
         IN IF l.rid = h.rid /\ l.kind = h.kind
            THEN Cat(SubSeq(a, 1, Len(a) - 1) \o <<[l EXCEPT !.n = @ + h.n]>>, Tail(b))
            ELSE Cat(a \o <<h>>, Tail(b))

\* The frame the server writes in answer to request r, with a body of l bytes.
Frame(r, l) ==
    <<Seg(r, "h", l, HEADER_LEN)>> \o (IF l > 0 THEN <<Seg(r, "b", 0, l)>> ELSE <<>>)

\* socket.recv(n) returns between 1 and min(n, available) bytes.
Min(a, b) == IF a < b THEN a ELSE b
\* Of a backlog longer than any small frame the model lets recv return all or
\* all but one byte.
Chunks(m) ==
    IF m <= 0 THEN {}
    ELSE IF m <= HEADER_LEN + MaxBody THEN {1, m}
    ELSE {m - 1, m}

\* ----------------------------------------------------------------- sockets
NewSock(h) == [st |-> "open", hs |-> h, net |-> "up", out |-> <<>>, inb |-> <<>>]
CloseSock(S, s) == [S EXCEPT ![s].st = "closed", ![s].out = <<>>, ![s].inb = <<>>]

\* -------------------------------------------------------------- list heap
\* A list object nothing refers to any more is reclaimed.
Referenced(T, p) == ({p} \cup {T[t].lst : t \in Threads}) \ {0}
Reclaim(L, T, p) == [k \in Slots |-> IF k \in Referenced(T, p) THEN L[k] ELSE <<>>]
\* The slot of a fresh list object when thread t evaluates `[]`.
FreshSlot(T) == CHOOSE k \in Slots :
    /\ \A t \in Threads : T[t].lst # k
    /\ \A m \in Slots : (\A t \in Threads : T[t].lst # m) => k <= m

\* ------------------------------------------------------------------ values
\* A Python value as msgpack carries it: None, bool, int, str (its code
\* points), list, dict (its keys and values in turn: k1, v1, k2, v2, ...).
Mk(t, n, c, e) == [t |-> t, n |-> n, c |-> c, e |-> e]
PyNone == Mk("nil", 0, <<>>, <<>>)
PyBool(b) == Mk("bool", IF b THEN 1 ELSE 0, <<>>, <<>>)
PyInt(n) == Mk("int", n, <<>>, <<>>)
PyStr(c) == Mk("str", 0, c, <<>>)
PyList(e) == Mk("list", 0, <<>>, e)
PyDict(e) == Mk("dict", 0, <<>>, e)

\* The strings of the protocol, as ASCII code points.
c_ok == <<111, 107>>
c_error == <<101, 114, 114, 111, 114>>
c_pong == <<112, 111, 110, 103>>
c_status == <<115, 116, 97, 116, 117, 115>>
c_data == <<100, 97, 116, 97>>
c_cmd == <<99, 109, 100>>
c_ping == <<112, 105, 110, 103>>
c_unknown_error == <<85, 110, 107, 110, 111, 119, 110, 32, 101, 114, 114, 111, 114>>
\* Strings the protocol gives no meaning to: a future status tag, a key, a text.
c_new == <<110, 101, 119>>
c_k == <<107>>
c_v == <<118>>

\* MAGIC_HEADER = b"solidb-drv-v1\x00"
MAGIC_HEADER == <<115, 111, 108, 105, 100, 98, 45, 100, 114, 118, 45, 118, 49, 0>>

\* U32BE with the bytes in little-endian order.
U32LE(n) ==
    <<n % 256, (n \div 256) % 256, (n \div 65536) % 256, (n \div 16777216) % 256>>

\* struct.pack(">I", n) and struct.unpack(">I", header)[0]
U32BE(n) ==
    <<(n \div 16777216) % 256, (n \div 65536) % 256, (n \div 256) % 256, n % 256>>

U32(h) == h[1] * 16777216 + h[2] * 65536 + h[3] * 256 + h[4]

\* msgpack.Packer(use_bin_type=True).pack: the formats the values of this
\* model need (nil, false/true, positive fixint, fixstr, fixarray, fixmap).
RECURSIVE Pack(_)
RECURSIVE PackAll(_)
PackAll(e) == IF e = <<>> THEN <<>> ELSE Pack(Head(e)) \o PackAll(Tail(e))
Pack(v) ==
    CASE v.t = "nil" -> <<192>>
      [] v.t = "bool" -> <<194 + v.n>>
      [] v.t = "int" -> <<v.n>>
      [] v.t = "str" -> <<160 + Len(v.c)>> \o v.c
      [] v.t = "list" -> <<144 + Len(v.e)>> \o PackAll(v.e)
      [] v.t = "dict" -> <<128 + (Len(v.e) \div 2)>> \o PackAll(v.e)

\* msgpack.unpackb(data, raw=False): one value that takes up all of data, or
\* an exception (truncated input, trailing bytes, the reserved byte 0xc1).
Unparsed == [ok |-> FALSE, v |-> PyNone, vs |-> <<>>, rest |-> <<>>]
Parsed(v, r) == [ok |-> TRUE, v |-> v, vs |-> <<>>, rest |-> r]

RECURSIVE ParseOne(_)
RECURSIVE ParseMany(_, _)
ParseMany(b, n) ==
    IF n = 0 THEN [ok |-> TRUE, v |-> PyNone, vs |-> <<>>, rest |-> b]
    ELSE LET h == ParseOne(b)
         IN IF ~h.ok THEN Unparsed
            ELSE LET r == ParseMany(h.rest, n - 1)
                 IN IF ~r.ok THEN Unparsed
                    ELSE [ok |-> TRUE, v |-> PyNone, vs |-> <<h.v>> \o r.vs, rest |-> r.rest]

ParseOne(b) ==
    IF b = <<>> THEN Unparsed
    ELSE LET x == Head(b)
             r == Tail(b)
         IN CASE x <= 127 -> Parsed(PyInt(x), r)
              [] x \in 128..143 ->
                    LET m == ParseMany(r, 2 * (x - 128))
                    IN IF m.ok THEN Parsed(PyDict(m.vs), m.rest) ELSE Unparsed
              [] x \in 144..159 ->
                    LET m == ParseMany(r, x - 144)
                    IN IF m.ok THEN Parsed(PyList(m.vs), m.rest) ELSE Unparsed
              [] x \in 160..191 ->
                    IF Len(r) >= x - 160
                    THEN Parsed(PyStr(SubSeq(r, 1, x - 160)), SubSeq(r, x - 159, Len(r)))
                    ELSE Unparsed
              [] x = 192 -> Parsed(PyNone, r)
              [] x = 194 -> Parsed(PyBool(FALSE), r)
              [] x = 195 -> Parsed(PyBool(TRUE), r)
              [] OTHER -> Unparsed

unpackb(data) ==
    LET p == ParseOne(data)
    IN IF p.ok /\ p.rest = <<>> THEN [ok |-> TRUE, v |-> p.v]
       ELSE [ok |-> FALSE, v |-> PyNone]

\* StrOf with every value handed on as it is.
StrOfRaw(v) == v

\* str(x): a str is itself, anything else its printed form.
StrOf(v) == IF v.t = "str" THEN v ELSE Mk("str_of", 0, <<>>, <<v>>)

\* Get with None for an absent key whatever the default.
GetNoDefault(d, key, default) ==
    IF \E i \in 1..(Len(d.e) \div 2) : d.e[2 * i - 1] = PyStr(key)
    THEN d.e[2 * (CHOOSE i \in 1..(Len(d.e) \div 2) : d.e[2 * i - 1] = PyStr(key))]
    ELSE PyNone

\* response.get(key, default) on a dict.
Get(d, key, default) ==
    IF \E i \in 1..(Len(d.e) \div 2) : d.e[2 * i - 1] = PyStr(key)
    THEN d.e[2 * (CHOOSE i \in 1..(Len(d.e) \div 2) : d.e[2 * i - 1] = PyStr(key))]
    ELSE default

\* How _receive_response ends once the payload is decoded: the value returned
\* or the exception raised.
Out(k, v) == [kind |-> k, val |-> v]
NoOut == Out("none", PyNone)

\* ----------------------------------------------------------------- threads
NoRes == [kind |-> "none", rid |-> 0, cause |-> "none", got |-> 0]
\* How an operation ended: the exception or "ok", the request the response
\* answered, where it failed, and the bytes recv_all had read by then.
Res(k, r, c, g) == [kind |-> k, rid |-> r, cause |-> c, got |-> g]

IdleThread == [pc |-> "idle", op |-> "none", lst |-> 0, i |-> 0, sock |-> 0,
               rid |-> 0, need |-> 0, hrid |-> 0, data |-> <<>>, res |-> NoRes,
               cnt |-> 0,
               nb |-> 0, nf |-> 0, ns |-> 0,
               s_conn |-> FALSE, s_pool |-> <<>>, s_nsock |-> 0]

\* A lone caller gets a longer run of operations than concurrent callers.
OpsBudget(n) == IF n = 1 THEN MaxSeqOps ELSE MaxOps

\* The client as __init__ leaves it.
Init ==
    /\ pool_size \in 1..MaxPoolSize
    /\ nthreads \in 1..NThreads
    /\ lists = [k \in Slots |-> <<>>]
    /\ pool = 1
    /\ pool_index = 0
    /\ connected = FALSE
    /\ lock = 0
    /\ socks = <<>>
    /\ th = [t \in Threads |-> IdleThread]
    /\ nreq = 0
    /\ nops = 0
    /\ budget = OpsBudget(nthreads)
    /\ nfaults = 0
    /\ xmark = 0
    /\ authed = {}

\* A connected pool between commands: connect() has succeeded and earlier
\* commands have left the cursor anywhere in the pool.
ConnectedPool ==
    /\ pool_size \in 1..MaxPoolSize
    /\ nthreads \in 1..NThreads
    /\ lists = [k \in Slots |-> IF k = 1 THEN [x \in 1..pool_size |-> x] ELSE <<>>]
    /\ pool = 1
    /\ pool_index \in 0..(pool_size - 1)
    /\ connected = TRUE
    /\ lock = 0
    /\ socks = [x \in 1..pool_size |-> NewSock(TRUE)]
    /\ th = [t \in Threads |-> IdleThread]
    /\ nreq = 0
    /\ nops = 0
    /\ nfaults = 0
    /\ xmark = 0
    /\ authed = {}

InitConnected == ConnectedPool /\ budget = OpsBudget(nthreads)

\* No run of the receive routine on a byte stream of its own.
NoCodec == [pc |-> "off", op |-> "none", src |-> "none", val |-> PyNone, sent |-> <<>>,
            wire |-> <<>>, eof |-> FALSE, need |-> 0, data |-> <<>>, calls |-> 0,
            ok |-> FALSE, dec |-> PyNone, res |-> NoOut,
            plen |-> 0, wrote |-> [header |-> <<>>, payload |-> 0], sock |-> 0]

\* The management side at rest: no HTTP call is modelled.
NoHttp == [pc |-> "off", port |-> "unset", token |-> "unset", database |-> "none",
           fresh |-> TRUE, op |-> [name |-> "none", db |-> "none", accept |-> FALSE],
           auth |-> "none", res |-> [kind |-> "none", val |-> "none"], sent |-> 0, n |-> 0]

\* No worker loop is running.
NoWork == [kind |-> [w \in Workers |-> "none"], wanted |-> [t \in Tasks |-> FALSE],
           status |-> [t \in Tasks |-> "none"], owner |-> [t \in Tasks |-> 0],
           pc |-> [w \in Workers |-> "off"], todo |-> [w \in Workers |-> <<>>],
           cur |-> [w \in Workers |-> 0], claim |-> [w \in Workers |-> 0],
           rounds |-> [w \in Workers |-> 0],
           forwarded |-> [t \in Tasks |-> {}], reported |-> [t \in Tasks |-> {}]]

\* A connected pool whose callers only invoke commands, with a healthy peer.
InitQuiet ==
    /\ ConnectedPool /\ budget = MaxQuietOps
    /\ codec = NoCodec /\ http = NoHttp /\ work = NoWork

\* ------------------------------------------------------- operation entry
Begin(t, o, entry) ==
    /\ t <= nthreads
    /\ th[t].pc = "idle"
    /\ nops < budget
    /\ nops' = nops + 1
    /\ th' = [th EXCEPT ![t] = [IdleThread EXCEPT !.pc = entry, !.op = o, !.cnt = th[t].cnt + 1,
                                   !.s_conn = connected, !.s_pool = lists[pool],
                                   !.s_nsock = Len(socks)]]
    /\ UNCHANGED <<pool_size, nthreads, lists, pool, pool_index, connected, lock,
                   socks, nreq, budget, nfaults, xmark, authed, codec, http, work>>

\* A caller invokes a command (_send_command), connect() or close().
StartInvoke(t) == Begin(t, "invoke", "sc_check")
StartConnect(t) == Begin(t, "connect", "c_check")
StartClose(t) == Begin(t, "close", "x_acquire")
\* auth() and auth_with_api_key(): _send_command("auth", ...).
StartAuth(t) == Begin(t, "auth", "sc_check")

\* The operation of thread t ends with result r; its locals die.
Finish(T, t, r) ==
    [T EXCEPT ![t].pc = "idle", ![t].res = r, ![t].lst = 0, ![t].i = 0,
              ![t].need = 0, ![t].hrid = 0, ![t].data = <<>>,
              ![t].s_conn = FALSE, ![t].s_pool = <<>>, ![t].s_nsock = 0]

\* ------------------------------------------------------- _send_command
\* `if not self.connected or not self._pool: self.connect()`
SC_CheckConnected(t) ==
    /\ th[t].pc = "sc_check"
    /\ th' = [th EXCEPT ![t].pc = IF connected THEN "sc_pool" ELSE "c_check"]
    /\ UNCHANGED <<pool_size, nthreads, lists, pool, pool_index, connected, lock,
                   socks, nreq, nops, budget, nfaults, xmark, authed, codec, http, work>>

SC_CheckPool(t) ==
    /\ th[t].pc = "sc_pool"
    /\ th' = [th EXCEPT ![t].pc = IF lists[pool] # <<>> THEN "g_acquire" ELSE "c_check"]
    /\ UNCHANGED <<pool_size, nthreads, lists, pool, pool_index, connected, lock,
                   socks, nreq, nops, budget, nfaults, xmark, authed, codec, http, work>>

\* ------------------------------------------------------------- connect
\* connect() returns to its caller: the public call ends, _send_command goes on.
AfterConnect(T, t) ==
    IF T[t].op = "connect" THEN Finish(T, t, Res("ok", 0, "none", 0))
    ELSE [T EXCEPT ![t].pc = "g_acquire"]

\* `if self.connected and self._pool: return`
C_CheckConnected(t) ==
    /\ th[t].pc = "c_check"
    /\ th' = [th EXCEPT ![t].pc = IF connected THEN "c_pool" ELSE "c_reset"]
    /\ UNCHANGED <<pool_size, nthreads, lists, pool, pool_index, connected, lock,
                   socks, nreq, nops, budget, nfaults, xmark, authed, codec, http, work>>

C_CheckPool(t) ==
    /\ th[t].pc = "c_pool"
    /\ th' = IF lists[pool] # <<>> THEN AfterConnect(th, t)
             ELSE [th EXCEPT ![t].pc = "c_reset"]
    /\ UNCHANGED <<pool_size, nthreads, lists, pool, pool_index, connected, lock,
                   socks, nreq, nops, budget, nfaults, xmark, authed, codec, http, work>>

\* C_Reset with the old list kept: the new connections are appended to it.
C_ResetKeepsList(t) ==
    /\ th[t].pc = "c_reset"
    /\ th' = [th EXCEPT ![t].pc = "c_loop", ![t].i = 0, ![t].nb = @ + 1]
    /\ UNCHANGED <<pool_size, nthreads, lists, pool, pool_index, connected, lock,
                   socks, nreq, nops, budget, nfaults, xmark, authed, codec, http, work>>

\* `self._pool = []`
C_Reset(t) ==
    /\ th[t].pc = "c_reset"
    /\ LET k == FreshSlot(th)
           T == [th EXCEPT ![t].pc = "c_loop", ![t].i = 0, ![t].nb = @ + 1]
       IN /\ pool' = k
          /\ th' = T
          /\ lists' = Reclaim([lists EXCEPT ![k] = <<>>], T, k)
    /\ UNCHANGED <<pool_size, nthreads, pool_index, connected, lock,
                   socks, nreq, nops, budget, nfaults, xmark, authed, codec, http, work>>

\* `for _ in range(self.pool_size):` and the evaluation of `self._pool.append`,
\* which binds the list object before _create_socket() runs.
C_LoopNext(t) ==
    /\ th[t].pc = "c_loop"
    /\ th[t].i < pool_size
    /\ th' = [th EXCEPT ![t].pc = "c_create", ![t].lst = pool]
    /\ UNCHANGED <<pool_size, nthreads, lists, pool, pool_index, connected, lock,
                   socks, nreq, nops, budget, nfaults, xmark, authed, codec, http, work>>

\* The loop is over: `self.connected = True`.
C_Done(t) ==
    /\ th[t].pc = "c_loop"
    /\ th[t].i >= pool_size
    /\ connected' = TRUE
    /\ th' = AfterConnect(th, t)
    /\ UNCHANGED <<pool_size, nthreads, lists, pool, pool_index, lock,
                   socks, nreq, nops, budget, nfaults, xmark, authed, codec, http, work>>

\* C_Create with the preamble left unwritten.
C_CreateNoPreamble(t) ==
    /\ th[t].pc = "c_create"
    /\ Len(socks) < MaxSocks
    /\ socks' = Append(socks, NewSock(FALSE))
    /\ LET T == [th EXCEPT ![t].pc = "c_loop", ![t].lst = 0, ![t].i = @ + 1,
                           ![t].ns = @ + 1]
       IN /\ th' = T
          /\ lists' = Reclaim([lists EXCEPT ![th[t].lst] = Append(@, Len(socks) + 1)],
                              T, pool)
    /\ UNCHANGED <<pool_size, nthreads, pool, pool_index, connected, lock,
                   nreq, nops, budget, nfaults, xmark, authed, codec, http, work>>

\* _create_socket() succeeds (socket, connect, preamble written) and the socket
\* is appended to the list bound before the call.
C_Create(t) ==
    /\ th[t].pc = "c_create"
    /\ Len(socks) < MaxSocks
    /\ socks' = Append(socks, NewSock(TRUE))
    /\ LET T == [th EXCEPT ![t].pc = "c_loop", ![t].lst = 0, ![t].i = @ + 1,
                           ![t].ns = @ + 1]
       IN /\ th' = T
          /\ lists' = Reclaim([lists EXCEPT ![th[t].lst] = Append(@, Len(socks) + 1)],
                              T, pool)
    /\ UNCHANGED <<pool_size, nthreads, pool, pool_index, connected, lock,
                   nreq, nops, budget, nfaults, xmark, authed, codec, http, work>>

\* _create_socket() raises: socket creation or connect failed (no connection was
\* opened), or the preamble write failed on a connection that was opened and is
\* dropped unclosed. The handler starts `for s in self._pool:`.
C_CreateFail(t) ==
    /\ th[t].pc = "c_create"
    /\ nfaults < MaxFaults
    /\ nfaults' = nfaults + 1
    /\ \E stage \in {"socket", "connect", "preamble"} :
          /\ stage = "preamble" => Len(socks) < MaxSocks
          /\ socks' = IF stage = "preamble" THEN Append(socks, NewSock(FALSE)) ELSE socks
    /\ LET T == [th EXCEPT ![t].pc = "c_fail", ![t].lst = pool, ![t].i = 0]
       IN /\ th' = T
          /\ lists' = Reclaim(lists, T, pool)
    /\ UNCHANGED <<pool_size, nthreads, pool, pool_index, connected, lock,
                   nreq, nops, budget, xmark, authed, codec, http, work>>

\* C_FailClose with the socket left open.
C_FailSkipClose(t) ==
    /\ th[t].pc = "c_fail"
    /\ th[t].i < Len(lists[th[t].lst])
    /\ th' = [th EXCEPT ![t].i = @ + 1]
    /\ UNCHANGED <<pool_size, nthreads, lists, pool, pool_index, connected, lock,
                   socks, nreq, nops, budget, nfaults, xmark, authed, codec, http, work>>

\* One iteration of the handler's loop: `s.close()`.
C_FailClose(t) ==
    /\ th[t].pc = "c_fail"
    /\ th[t].i < Len(lists[th[t].lst])
    /\ socks' = CloseSock(socks, lists[th[t].lst][th[t].i + 1])
    /\ th' = [th EXCEPT ![t].i = @ + 1]
    /\ UNCHANGED <<pool_size, nthreads, lists, pool, pool_index, connected, lock,
                   nreq, nops, budget, nfaults, xmark, authed, codec, http, work>>

\* `self._pool = []; raise ConnectionError(...)`
C_FailRaise(t) ==
    /\ th[t].pc = "c_fail"
    /\ th[t].i >= Len(lists[th[t].lst])
    /\ LET T == Finish(th, t, Res("ConnectionError", 0, "bringup", 0))
           k == FreshSlot(T)
       IN /\ pool' = k
          /\ th' = T
          /\ lists' = Reclaim([lists EXCEPT ![k] = <<>>], T, k)
    /\ UNCHANGED <<pool_size, nthreads, pool_index, connected, lock,
                   socks, nreq, nops, budget, nfaults, xmark, authed, codec, http, work>>

\* --------------------------------------------------------------- close
\* `with self._pool_lock:` and the start of `for sock in self._pool:`
X_Acquire(t) ==
    /\ th[t].pc = "x_acquire"
    /\ lock = 0
    /\ lock' = t
    /\ th' = [th EXCEPT ![t].pc = "x_loop", ![t].lst = pool, ![t].i = 0]
    /\ UNCHANGED <<pool_size, nthreads, lists, pool, pool_index, connected,
                   socks, nreq, nops, budget, nfaults, xmark, authed, codec, http, work>>

X_CloseOne(t) ==
    /\ th[t].pc = "x_loop"
    /\ th[t].i < Len(lists[th[t].lst])
    /\ socks' = CloseSock(socks, lists[th[t].lst][th[t].i + 1])
    /\ th' = [th EXCEPT ![t].i = @ + 1]
    /\ UNCHANGED <<pool_size, nthreads, lists, pool, pool_index, connected, lock,
                   nreq, nops, budget, nfaults, xmark, authed, codec, http, work>>

\* X_Finish with the list of closed sockets left in place as the pool.
X_FinishKeepsPool(t) ==
    /\ th[t].pc = "x_loop"
    /\ th[t].i >= Len(lists[th[t].lst])
    /\ LET T == Finish(th, t, Res("ok", 0, "none", 0))
       IN /\ th' = T
          /\ lists' = Reclaim(lists, T, pool)
    /\ connected' = FALSE
    /\ lock' = 0
    /\ xmark' = Len(socks)
    /\ UNCHANGED <<pool_size, nthreads, pool, pool_index, socks, nreq, nops, budget, nfaults,
                   authed, codec, http, work>>

\* `self._pool = []; self.connected = False`, and the lock is released.
X_Finish(t) ==
    /\ th[t].pc = "x_loop"
    /\ th[t].i >= Len(lists[th[t].lst])
    /\ LET T == Finish(th, t, Res("ok", 0, "none", 0))
           k == FreshSlot(T)
       IN /\ pool' = k
          /\ th' = T
          /\ lists' = Reclaim([lists EXCEPT ![k] = <<>>], T, k)
    /\ connected' = FALSE
    /\ lock' = 0
    /\ xmark' = Len(socks)
    /\ UNCHANGED <<pool_size, nthreads, pool_index, socks, nreq, nops, budget, nfaults,
                   authed, codec, http, work>>

\* ---------------------------------------------------- _get_next_socket
\* `with self._pool_lock:`
G_Acquire(t) ==
    /\ th[t].pc = "g_acquire"
    /\ lock = 0
    /\ lock' = t
    /\ th' = [th EXCEPT ![t].pc = "g_select"]
    /\ UNCHANGED <<pool_size, nthreads, lists, pool, pool_index, connected,
                   socks, nreq, nops, budget, nfaults, xmark, authed, codec, http, work>>

\* G_Select returning the first connection whatever the cursor.
G_SelectFirst(t) ==
    /\ th[t].pc = "g_select"
    /\ pool_index < Len(lists[pool])
    /\ th' = [th EXCEPT ![t].pc = "g_advance", ![t].sock = lists[pool][1]]
    /\ UNCHANGED <<pool_size, nthreads, lists, pool, pool_index, connected, lock,
                   socks, nreq, nops, budget, nfaults, xmark, authed, codec, http, work>>

\* `sock = self._pool[self._pool_index]`
G_Select(t) ==
    /\ th[t].pc = "g_select"
    /\ pool_index < Len(lists[pool])
    /\ th' = [th EXCEPT ![t].pc = "g_advance", ![t].sock = lists[pool][pool_index + 1]]
    /\ UNCHANGED <<pool_size, nthreads, lists, pool, pool_index, connected, lock,
                   socks, nreq, nops, budget, nfaults, xmark, authed, codec, http, work>>

\* The subscript is out of range: IndexError leaves the `with` block and
\* _send_command (the call is outside its try).
G_IndexError(t) ==
    /\ th[t].pc = "g_select"
    /\ pool_index >= Len(lists[pool])
    /\ lock' = 0
    /\ th' = Finish(th, t, Res("IndexError", 0, "select", 0))
    /\ UNCHANGED <<pool_size, nthreads, lists, pool, pool_index, connected,
                   socks, nreq, nops, budget, nfaults, xmark, authed, codec, http, work>>

\* G_Advance with the cursor left where it was.
G_AdvanceStuck(t) ==
    /\ th[t].pc = "g_advance"
    /\ Len(lists[pool]) > 0
    /\ lock' = 0
    /\ th' = [th EXCEPT ![t].pc = "s_send"]
    /\ UNCHANGED <<pool_size, nthreads, lists, pool, pool_index, connected,
                   socks, nreq, nops, budget, nfaults, xmark, authed, codec, http, work>>

\* `self._pool_index = (self._pool_index + 1) % len(self._pool)`, `return sock`
G_Advance(t) ==
    /\ th[t].pc = "g_advance"
    /\ Len(lists[pool]) > 0
    /\ pool_index' = (pool_index + 1) % Len(lists[pool])
    /\ lock' = 0
    /\ th' = [th EXCEPT ![t].pc = "s_send"]
    /\ UNCHANGED <<pool_size, nthreads, lists, pool, connected,
                   socks, nreq, nops, budget, nfaults, xmark, authed, codec, http, work>>

\* The pool was rebound to an empty list since the subscript: ZeroDivisionError.
G_ZeroDivision(t) ==
    /\ th[t].pc = "g_advance"
    /\ Len(lists[pool]) = 0
    /\ lock' = 0
    /\ th' = Finish(th, t, Res("ZeroDivisionError", 0, "select", 0))
    /\ UNCHANGED <<pool_size, nthreads, lists, pool, pool_index, connected,
                   socks, nreq, nops, budget, nfaults, xmark, authed, codec, http, work>>

\* ------------------------------------------------- send and receive
\* `sock.sendall(header + payload)`: the request frame is written. A peer that
\* already closed never sees it.
S_Send(t) ==
    /\ th[t].pc = "s_send"
    /\ socks[th[t].sock].st = "open"
    /\ socks[th[t].sock].net # "reset"
    /\ nreq' = nreq + 1
    /\ socks' = [socks EXCEPT ![th[t].sock].out =
                    IF socks[th[t].sock].net = "up" THEN Append(@, nreq + 1) ELSE @]
    /\ th' = [th EXCEPT ![t].pc = "r_header", ![t].rid = nreq + 1, ![t].nf = @ + 1,
                        ![t].need = HEADER_LEN, ![t].data = <<>>]
    /\ UNCHANGED <<pool_size, nthreads, lists, pool, pool_index, connected, lock,
                   nops, budget, nfaults, xmark, authed, codec, http, work>>

\* S_SendFail with a retry: the command starts over instead of raising.
S_SendFailRetry(t) ==
    /\ th[t].pc = "s_send"
    /\ socks[th[t].sock].st = "closed" \/ socks[th[t].sock].net # "up"
    /\ connected' = FALSE
    /\ th' = [th EXCEPT ![t].pc = "sc_check"]
    /\ UNCHANGED <<pool_size, nthreads, lists, pool, pool_index, lock,
                   socks, nreq, nops, budget, nfaults, xmark, authed, codec, http, work>>

\* sendall raises OSError (socket closed by close(), connection reset, broken
\* pipe): `self.connected = False; raise ConnectionError`.
S_SendFail(t) ==
    /\ th[t].pc = "s_send"
    /\ socks[th[t].sock].st = "closed" \/ socks[th[t].sock].net # "up"
    /\ connected' = FALSE
    /\ th' = Finish(th, t, Res("ConnectionError", 0, "send", 0))
    /\ UNCHANGED <<pool_size, nthreads, lists, pool, pool_index, lock,
                   socks, nreq, nops, budget, nfaults, xmark, authed, codec, http, work>>

\* recv_all: `packet = sock.recv(n - len(data)); data += packet`
R_Recv(t) ==
    /\ th[t].pc \in {"r_header", "r_body"}
    /\ Total(th[t].data) < th[t].need
    /\ socks[th[t].sock].st = "open"
    /\ socks[th[t].sock].net # "reset"
    /\ \E k \in Chunks(Min(th[t].need - Total(th[t].data), Total(socks[th[t].sock].inb))) :
          /\ th' = [th EXCEPT ![t].data = Cat(@, TakeB(socks[th[t].sock].inb, k))]
          /\ socks' = [socks EXCEPT ![th[t].sock].inb = DropB(@, k)]
    /\ UNCHANGED <<pool_size, nthreads, lists, pool, pool_index, connected, lock,
                   nreq, nops, budget, nfaults, xmark, authed, codec, http, work>>

\* R_Eof with the connected flag left as it was.
R_EofKeepsFlag(t) ==
    /\ th[t].pc \in {"r_header", "r_body"}
    /\ Total(th[t].data) < th[t].need
    /\ socks[th[t].sock].st = "open"
    /\ socks[th[t].sock].net = "eof"
    /\ Total(socks[th[t].sock].inb) = 0
    /\ th' = Finish(th, t, Res("ConnectionError", 0,
                               IF th[t].pc = "r_header" THEN "eof_header" ELSE "eof_body",
                               Total(th[t].data)))
    /\ UNCHANGED <<pool_size, nthreads, lists, pool, pool_index, connected, lock,
                   socks, nreq, nops, budget, nfaults, xmark, authed, codec, http, work>>

\* recv returns b'' (the peer closed and nothing is buffered): recv_all returns
\* PyNone, `self.connected = False; raise ConnectionError`.
R_Eof(t) ==
    /\ th[t].pc \in {"r_header", "r_body"}
    /\ Total(th[t].data) < th[t].need
    /\ socks[th[t].sock].st = "open"
    /\ socks[th[t].sock].net = "eof"
    /\ Total(socks[th[t].sock].inb) = 0
    /\ connected' = FALSE
    /\ th' = Finish(th, t, Res("ConnectionError", 0,
                               IF th[t].pc = "r_header" THEN "eof_header" ELSE "eof_body",
                               Total(th[t].data)))
    /\ UNCHANGED <<pool_size, nthreads, lists, pool, pool_index, lock,
                   socks, nreq, nops, budget, nfaults, xmark, authed, codec, http, work>>

\* recv raises OSError (socket closed by close(), connection reset), caught in
\* _send_command: `self.connected = False; raise ConnectionError`.
R_Error(t) ==
    /\ th[t].pc \in {"r_header", "r_body"}
    /\ Total(th[t].data) < th[t].need
    /\ socks[th[t].sock].st = "closed" \/ socks[th[t].sock].net = "reset"
    /\ connected' = FALSE
    /\ th' = Finish(th, t, Res("ConnectionError", 0, "recv", Total(th[t].data)))
    /\ UNCHANGED <<pool_size, nthreads, lists, pool, pool_index, lock,
                   socks, nreq, nops, budget, nfaults, xmark, authed, codec, http, work>>

\* `struct.unpack(">I", header)[0]`: four bytes that are one frame's header give
\* its length; four bytes that are anything else give some number: a small
\* one, one within the limit but beyond what the stream will carry, or one
\* above the limit.
GarbageLens == {0, MaxBody, MAX_MESSAGE_SIZE, MAX_MESSAGE_SIZE + 1}
HeaderLens(d) ==
    IF Len(d) = 1 /\ d[1].kind = "h" /\ d[1].n = HEADER_LEN THEN {d[1].len}
    ELSE GarbageLens

\* R_TooLarge with the limit itself refused as well.
R_TooLargeInclusive(t) ==
    /\ th[t].pc = "r_header"
    /\ Total(th[t].data) = HEADER_LEN
    /\ \E n \in HeaderLens(th[t].data) : n >= MAX_MESSAGE_SIZE
    /\ th' = Finish(th, t, Res("ProtocolError", 0, "too_large", 0))
    /\ UNCHANGED <<pool_size, nthreads, lists, pool, pool_index, connected, lock,
                   socks, nreq, nops, budget, nfaults, xmark, authed, codec, http, work>>

\* `if length > self.MAX_MESSAGE_SIZE: raise ProtocolError`
R_TooLarge(t) ==
    /\ th[t].pc = "r_header"
    /\ Total(th[t].data) = HEADER_LEN
    /\ \E n \in HeaderLens(th[t].data) : n > MAX_MESSAGE_SIZE
    /\ th' = Finish(th, t, Res("ProtocolError", 0, "too_large", 0))
    /\ UNCHANGED <<pool_size, nthreads, lists, pool, pool_index, connected, lock,
                   socks, nreq, nops, budget, nfaults, xmark, authed, codec, http, work>>

\* `data = recv_all(length)` for a length within the limit and above zero.
R_Body(t) ==
    /\ th[t].pc = "r_header"
    /\ Total(th[t].data) = HEADER_LEN
    /\ \E n \in HeaderLens(th[t].data) :
          /\ n > 0
          /\ n <= MAX_MESSAGE_SIZE
          /\ th' = [th EXCEPT ![t].pc = "r_body", ![t].need = n, ![t].data = <<>>,
                              ![t].hrid = IF Len(th[t].data) = 1 /\ th[t].data[1].kind = "h"
                                             /\ th[t].data[1].n = HEADER_LEN
                                          THEN th[t].data[1].rid ELSE 0]
    /\ UNCHANGED <<pool_size, nthreads, lists, pool, pool_index, connected, lock,
                   socks, nreq, nops, budget, nfaults, xmark, authed, codec, http, work>>

\* A declared length of zero: recv_all(0) returns b'', which `if not data`
\* takes for a closed stream: `self.connected = False; raise ConnectionError`.
R_EmptyBody(t) ==
    /\ th[t].pc = "r_header"
    /\ Total(th[t].data) = HEADER_LEN
    /\ \E n \in HeaderLens(th[t].data) : n = 0
    /\ connected' = FALSE
    /\ th' = Finish(th, t, Res("ConnectionError", 0, "empty_body", 0))
    /\ UNCHANGED <<pool_size, nthreads, lists, pool, pool_index, lock,
                   socks, nreq, nops, budget, nfaults, xmark, authed, codec, http, work>>

\* The body is complete: msgpack.unpackb and the envelope rules. The bytes of
\* one frame's body decode to the response the server sent in it; any other
\* bytes decode to something else or fail to decode.
Decode(hdr, d) ==
    IF hdr # 0 /\ Len(d) = 1 /\ d[1].kind = "b" /\ d[1].rid = hdr
    THEN Res("ok", hdr, "none", 0)
    ELSE Res("garbage", 0, "none", 0)

\* An auth command the server answered with its own response has authorized
\* the session of the connection it went over.
R_Decode(t) ==
    /\ th[t].pc = "r_body"
    /\ Total(th[t].data) = th[t].need
    /\ th' = Finish(th, t, Decode(th[t].hrid, th[t].data))
    /\ authed' = IF th[t].op = "auth" /\ Decode(th[t].hrid, th[t].data).rid = th[t].rid
                 THEN authed \cup {th[t].sock} ELSE authed
    /\ UNCHANGED <<pool_size, nthreads, lists, pool, pool_index, connected, lock,
                   socks, nreq, nops, budget, nfaults, xmark, codec, http, work>>

\* ------------------------------------------------------------ the peer
Range(q) == {q[x] : x \in 1..Len(q)}
\* Connections the client can still use: members of the pool, or selected by
\* an invoke that is sending or receiving.
InUse(s) ==
    \/ s \in Range(lists[pool])
    \/ \E t \in Threads : th[t].sock = s /\ th[t].pc \in {"s_send", "r_header", "r_body"}

\* The server answers the oldest unanswered request on connection s with one
\* well-formed frame (an encoded response is never empty).
ServerRespond(s) ==
    /\ s <= Len(socks)
    /\ socks[s].st = "open"
    /\ socks[s].net = "up"
    /\ socks[s].out # <<>>
    /\ \E l \in {MaxBody} :
          socks' = [socks EXCEPT ![s].out = Tail(@),
                                 ![s].inb = @ \o Frame(Head(socks[s].out), l)]
    /\ UNCHANGED <<pool_size, nthreads, lists, pool, pool_index, connected, lock,
                   th, nreq, nops, budget, nfaults, xmark, authed, codec, http, work>>

\* The server answers with a frame that declares a zero-length payload, or one
\* that declares more than MAX_MESSAGE_SIZE bytes.
ServerRespondOdd(s) ==
    /\ s <= Len(socks)
    /\ socks[s].st = "open"
    /\ socks[s].net = "up"
    /\ socks[s].out # <<>>
    /\ nfaults < MaxFaults
    /\ nfaults' = nfaults + 1
    /\ \E l \in {0, MAX_MESSAGE_SIZE + 1} :
          socks' = [socks EXCEPT ![s].out = Tail(@),
                                 ![s].inb = @ \o Frame(Head(socks[s].out), l)]
    /\ UNCHANGED <<pool_size, nthreads, lists, pool, pool_index, connected, lock,
                   th, nreq, nops, budget, xmark, authed, codec, http, work>>

\* The server answers with a frame of the largest length the client accepts.
ServerRespondMax(s) ==
    /\ s <= Len(socks)
    /\ socks[s].st = "open"
    /\ socks[s].net = "up"
    /\ socks[s].out # <<>>
    /\ socks' = [socks EXCEPT ![s].out = Tail(@),
                              ![s].inb = @ \o Frame(Head(socks[s].out), MAX_MESSAGE_SIZE)]
    /\ UNCHANGED <<pool_size, nthreads, lists, pool, pool_index, connected, lock,
                   th, nreq, nops, budget, nfaults, xmark, authed, codec, http, work>>

\* The peer closes the stream; of what it was sending only a prefix arrives.
PeerClose(s) ==
    /\ s <= Len(socks)
    /\ socks[s].st = "open"
    /\ socks[s].net = "up"
    /\ InUse(s)
    /\ nfaults < MaxFaults
    /\ nfaults' = nfaults + 1
    /\ \E k \in (0..Min(Total(socks[s].inb), HEADER_LEN + MaxBody)) \cup {Total(socks[s].inb)} :
          socks' = [socks EXCEPT ![s].net = "eof", ![s].out = <<>>,
                                 ![s].inb = TakeB(@, k)]
    /\ UNCHANGED <<pool_size, nthreads, lists, pool, pool_index, connected, lock,
                   th, nreq, nops, budget, xmark, authed, codec, http, work>>

\* The connection breaks: further send and recv calls raise OSError.
NetReset(s) ==
    /\ s <= Len(socks)
    /\ socks[s].st = "open"
    /\ socks[s].net # "reset"
    /\ InUse(s)
    /\ nfaults < MaxFaults
    /\ nfaults' = nfaults + 1
    /\ socks' = [socks EXCEPT ![s].net = "reset", ![s].out = <<>>, ![s].inb = <<>>]
    /\ UNCHANGED <<pool_size, nthreads, lists, pool, pool_index, connected, lock,
                   th, nreq, nops, budget, xmark, authed, codec, http, work>>

\* ------------------------------------------------------ specifications
ThreadStep(t) ==
    \/ StartInvoke(t) \/ StartConnect(t) \/ StartClose(t)
    \/ SC_CheckConnected(t) \/ SC_CheckPool(t)
    \/ C_CheckConnected(t) \/ C_CheckPool(t) \/ C_Reset(t) \/ C_LoopNext(t)
    \/ C_Done(t) \/ C_Create(t) \/ C_CreateFail(t) \/ C_FailClose(t) \/ C_FailRaise(t)
    \/ X_Acquire(t) \/ X_CloseOne(t) \/ X_Finish(t)
    \/ G_Acquire(t) \/ G_Select(t) \/ G_IndexError(t) \/ G_Advance(t) \/ G_ZeroDivision(t)
    \/ S_Send(t) \/ S_SendFail(t)
    \/ R_Recv(t) \/ R_Eof(t) \/ R_Error(t)
    \/ R_TooLarge(t) \/ R_Body(t) \/ R_EmptyBody(t) \/ R_Decode(t)

PeerStep(s) ==
    \/ ServerRespond(s) \/ ServerRespondOdd(s) \/ PeerClose(s) \/ NetReset(s)

Next ==
    \/ \E t \in Threads : ThreadStep(t)
    \/ \E s \in SockIds : PeerStep(s)

InitAny == (Init \/ InitConnected) /\ codec = NoCodec /\ http = NoHttp /\ work = NoWork

Spec == InitAny /\ [][Next]_vars

\* The client after it was used and closed: close() has emptied the pool and
\* cleared the flag, and the cursor is where the last selection left it, here
\* on the pool's last position.
InitClosed ==
    /\ pool_size = MaxPoolSize
    /\ nthreads = NThreads
    /\ lists = [k \in Slots |-> <<>>]
    /\ pool = 1
    /\ pool_index = pool_size - 1
    /\ connected = FALSE
    /\ lock = 0
    /\ socks = <<>>
    /\ th = [t \in Threads |-> IdleThread]
    /\ nreq = 0
    /\ nops = 0
    /\ budget = OpsBudget(nthreads)
    /\ nfaults = 0
    /\ xmark = 0
    /\ authed = {}
    /\ codec = NoCodec /\ http = NoHttp /\ work = NoWork

SpecClosed == InitClosed /\ [][Next]_vars

\* One caller: the steps a lone thread can take (a subscript out of range and
\* a division by zero in _get_next_socket need a second thread).
SeqStep(t) ==
    \/ StartInvoke(t) \/ StartConnect(t) \/ StartClose(t)
    \/ SC_CheckConnected(t) \/ SC_CheckPool(t)
    \/ C_CheckConnected(t) \/ C_CheckPool(t) \/ C_Reset(t) \/ C_LoopNext(t)
    \/ C_Done(t) \/ C_Create(t) \/ C_CreateFail(t) \/ C_FailClose(t) \/ C_FailRaise(t)
    \/ X_Acquire(t) \/ X_CloseOne(t) \/ X_Finish(t)
    \/ G_Acquire(t) \/ G_Select(t) \/ G_Advance(t)
    \/ S_Send(t) \/ S_SendFail(t)
    \/ R_Recv(t) \/ R_Eof(t) \/ R_Error(t)
    \/ R_TooLarge(t) \/ R_Body(t) \/ R_EmptyBody(t) \/ R_Decode(t)

SeqNext ==
    \/ SeqStep(1)
    \/ \E s \in SockIds : PeerStep(s)

InitSeq == InitAny /\ nthreads = 1

SpecSeq == InitSeq /\ [][SeqNext]_vars

\* One caller and a peer whose frames go up to the length limit.
FrameNext ==
    \/ SeqNext
    \/ \E s \in SockIds : ServerRespondMax(s)

SpecFrame == InitSeq /\ [][FrameNext]_vars

\* One caller that also authenticates.
AuthNext ==
    \/ SeqNext
    \/ StartAuth(1)

SpecAuth == InitSeq /\ [][AuthNext]_vars

\* Callers that only invoke commands on a connected pool whose peer answers
\* every request with a well-formed frame and never fails.
QuietStep(t) ==
    \/ StartInvoke(t)
    \/ SC_CheckConnected(t) \/ SC_CheckPool(t)
    \/ C_CheckConnected(t) \/ C_CheckPool(t) \/ C_Reset(t) \/ C_LoopNext(t)
    \/ C_Done(t) \/ C_Create(t)
    \/ G_Acquire(t) \/ G_Select(t) \/ G_IndexError(t) \/ G_Advance(t) \/ G_ZeroDivision(t)
    \/ S_Send(t)
    \/ R_Recv(t)
    \/ R_TooLarge(t) \/ R_Body(t) \/ R_EmptyBody(t) \/ R_Decode(t)

QuietNext ==
    \/ \E t \in Threads : QuietStep(t)
    \/ \E s \in SockIds : ServerRespond(s)

SpecQuiet == InitQuiet /\ [][QuietNext]_vars

\* The same callers and peer, scheduled fairly: a caller that can take a step
\* of its command eventually takes one (its thread is scheduled, and recv
\* returns once bytes are there), and the server eventually answers a request
\* it has received.
SpecLive ==
    /\ InitQuiet
    /\ [][QuietNext]_vars
    /\ \A t \in Threads : WF_vars(QuietStep(t))
    /\ \A s \in SockIds : WF_vars(ServerRespond(s))

\* ------------------------------------------- the receive routine on bytes
\* _receive_response, byte for byte, on the stream of one connection: the
\* length header, the payload, msgpack, the envelope rules, and the public
\* call on top of it.

\* Interpret with an unknown status tag answered by the whole response.
InterpretWholeOnUnknown(response) ==
    IF response.t = "list" /\ Len(response.e) >= 1 /\ response.e[1].t = "str"
    THEN LET status == response.e[1]
             body == IF Len(response.e) > 1 THEN response.e[2] ELSE PyNone
         IN IF status = PyStr(c_ok) THEN Out("return", body)
            ELSE IF status = PyStr(c_error)
            THEN Out("ServerError",
                     IF body.t = "dict" /\ Len(body.e) = 2 THEN body.e[2] ELSE StrOf(body))
            ELSE IF status = PyStr(c_pong) THEN Out("return", body)
            ELSE Out("return", response)
    ELSE IF response.t = "dict"
    THEN IF Get(response, c_status, PyNone) = PyStr(c_error)
         THEN Out("ServerError", StrOf(Get(response, c_error, PyStr(c_unknown_error))))
         ELSE IF Get(response, c_status, PyNone) = PyStr(c_ok)
         THEN Out("return", Get(response, c_data, PyNone))
         ELSE Out("return", response)
    ELSE Out("return", response)

\* The envelope rules of _receive_response, in the order the code tests them.
Interpret(response) ==
    IF response.t = "list" /\ Len(response.e) >= 1 /\ response.e[1].t = "str"
    THEN LET status == response.e[1]
             body == IF Len(response.e) > 1 THEN response.e[2] ELSE PyNone
         IN IF status = PyStr(c_ok) THEN Out("return", body)
            ELSE IF status = PyStr(c_error)
            THEN Out("ServerError",
                     IF body.t = "dict" /\ Len(body.e) = 2 THEN body.e[2] ELSE StrOf(body))
            ELSE IF status = PyStr(c_pong) THEN Out("return", body)
            ELSE Out("return", body)
    ELSE IF response.t = "dict"
    THEN IF Get(response, c_status, PyNone) = PyStr(c_error)
         THEN Out("ServerError", StrOf(Get(response, c_error, PyStr(c_unknown_error))))
         ELSE IF Get(response, c_status, PyNone) = PyStr(c_ok)
         THEN Out("return", Get(response, c_data, PyNone))
         ELSE Out("return", response)
    ELSE Out("return", response)

\* Ping with the response body handed on.
PingBody(out) == out

\* ping(): `self._send_command("ping"); return True`
Ping(out) == IF out.kind = "return" THEN Out("return", PyBool(TRUE)) ELSE out

\* The public call: ping(), or one that returns what _send_command returned.
Api(op, out) == IF op = "ping" THEN Ping(out) ELSE out

\* `payload = self.packer.pack(command); header = struct.pack(">I", len(payload))`
\* and the bytes `header + payload`.
EncodeFrame(v) == U32BE(Len(Pack(v))) \o Pack(v)

\* ---- inputs
Bodies ==
    {PyNone, PyBool(TRUE), PyBool(FALSE), PyInt(5), PyStr(c_v),
     PyList(<<PyInt(1), PyStr(c_v)>>),
     PyDict(<<>>),
     PyDict(<<PyStr(c_k), PyStr(c_v)>>),
     PyDict(<<PyStr(c_k), PyInt(5)>>),
     PyDict(<<PyStr(c_k), PyStr(c_v), PyStr(c_v), PyInt(1)>>)}

Tags == {c_ok, c_error, c_pong, c_new}

Pairs == {PyList(<<PyStr(g), b>>) : g \in Tags, b \in Bodies}

OtherLists ==
    {PyList(<<>>),
     PyList(<<PyStr(c_ok)>>),
     PyList(<<PyStr(c_error)>>),
     PyList(<<PyStr(c_ok), PyStr(c_v), PyStr(c_k)>>),
     PyList(<<PyInt(1), PyStr(c_v)>>),
     PyList(<<PyNone, PyStr(c_ok)>>),
     PyList(<<PyList(<<PyStr(c_ok)>>), PyInt(1)>>)}

Legacy ==
    {PyDict(<<PyStr(c_status), PyStr(c_error), PyStr(c_error), PyStr(c_v)>>),
     PyDict(<<PyStr(c_status), PyStr(c_error), PyStr(c_error), PyInt(5)>>),
     PyDict(<<PyStr(c_status), PyStr(c_error)>>),
     PyDict(<<PyStr(c_status), PyStr(c_ok), PyStr(c_data), PyList(<<PyInt(1)>>)>>),
     PyDict(<<PyStr(c_data), PyInt(5), PyStr(c_status), PyStr(c_ok)>>),
     PyDict(<<PyStr(c_status), PyStr(c_ok)>>),
     PyDict(<<PyStr(c_status), PyStr(c_new), PyStr(c_data), PyInt(5)>>),
     PyDict(<<PyStr(c_status), PyInt(5)>>),
     PyDict(<<PyStr(c_data), PyInt(5)>>),
     PyDict(<<>>)}

Scalars == {PyNone, PyBool(TRUE), PyInt(0), PyStr(c_ok), PyStr(<<>>)}

\* `command = {"cmd": cmd_name}; command.update(kwargs)`
Commands ==
    {PyDict(<<PyStr(c_cmd), PyStr(c_ping)>>),
     PyDict(<<PyStr(c_cmd), PyStr(c_new), PyStr(c_k), PyStr(c_v)>>),
     PyDict(<<PyStr(c_cmd), PyStr(c_new), PyStr(c_k), PyDict(<<PyStr(c_v), PyNone>>),
              PyStr(c_v), PyList(<<PyInt(1), PyBool(FALSE)>>)>>)}

Values == Pairs \cup OtherLists \cup Legacy \cup Scalars \cup Commands

\* Streams that are no frame of a value: a frame declaring no payload, one
\* declaring the largest length and one declaring more, and frames whose
\* payload msgpack rejects (reserved byte, missing element, trailing byte).
RawStreams ==
    {U32BE(0),
     U32BE(MAX_MESSAGE_SIZE) \o <<192, 192>>,
     U32BE(MAX_MESSAGE_SIZE + 1) \o <<192, 192>>,
     U32BE(1) \o <<193>>,
     U32BE(2) \o <<146, 1>>,
     U32BE(2) \o <<192, 192>>}

\* Frames the peer closes in the middle of.
CutFrames ==
    {SubSeq(EncodeFrame(v), 1, k) :
        v \in {PyList(<<PyStr(c_pong), PyBool(TRUE)>>)}, k \in 0..6}

\* A frame a command fails on once decoded (a server-reported error, a
\* payload msgpack rejects), with the frame of a later response behind it.
TwoFrames ==
    {f \o EncodeFrame(PyList(<<PyStr(c_pong), PyBool(TRUE)>>)) :
        f \in {EncodeFrame(PyList(<<PyStr(c_error), PyStr(c_v)>>)), U32BE(1) \o <<193>>}}

\* One exchange: the connection is still to be selected and the command to be
\* written, the peer's answer is `bytes`, then the stream stays open or is
\* closed.
Codec(op, src, v, bytes, eof) ==
    [pc |-> "select", op |-> op, src |-> src, val |-> v, sent |-> bytes, wire |-> bytes,
     eof |-> eof, need |-> HEADER_LEN, data |-> <<>>, calls |-> 0,
     ok |-> FALSE, dec |-> PyNone, res |-> NoOut,
     plen |-> 0, wrote |-> [header |-> <<>>, payload |-> 0], sock |-> 0]

\* len(payload) of the packed command: ping's is fixed, another command's
\* grows with its arguments, to the limit and past it.
PayloadSizes(op) ==
    IF op = "ping"
    THEN {Len(Pack(PyDict(<<PyStr(c_cmd), PyStr(c_ping)>>)))}
    ELSE {Len(Pack(c)) : c \in Commands} \cup {MAX_MESSAGE_SIZE, MAX_MESSAGE_SIZE + 1}

Responses ==
    {Codec(op, "frame", v, EncodeFrame(v), eof) :
        op \in {"ping", "send_command"}, v \in Values, eof \in BOOLEAN}
    \cup {Codec(op, "raw", PyNone, b, eof) :
        op \in {"ping", "send_command"}, b \in RawStreams, eof \in BOOLEAN}
    \cup {Codec(op, "cut", PyNone, b, TRUE) :
        op \in {"ping", "send_command"}, b \in CutFrames}
    \cup {Codec("send_command", "two", PyNone, b, FALSE) : b \in TwoFrames}

CodecInputs ==
    UNION {{[c EXCEPT !.plen = n] : n \in PayloadSizes(c.op)} : c \in Responses}

\* A connected client between commands, one caller about to invoke a command.
InitCodec ==
    /\ ConnectedPool
    /\ nthreads = 1
    /\ budget = 0
    /\ codec \in CodecInputs
    /\ http = NoHttp
    /\ work = NoWork

\* ---- steps
CodecEnd(out) == [codec EXCEPT !.pc = "done", !.res = out]

\* `if not self.connected or not self._pool: self.connect()`
NeedsBringUp == ~connected \/ lists[pool] = <<>>

\* The pool is connected, connect() is not called; `sock = self._get_next_socket()`
\* by the only caller.
K_Select ==
    /\ codec.pc = "select"
    /\ ~NeedsBringUp
    /\ codec' = [codec EXCEPT !.pc = "send", !.sock = lists[pool][pool_index + 1]]
    /\ pool_index' = (pool_index + 1) % Len(lists[pool])
    /\ UNCHANGED <<pool_size, nthreads, lists, pool, connected, lock,
                   socks, th, nreq, nops, budget, nfaults, xmark, authed, http, work>>

\* `header = struct.pack(">I", len(payload)); sock.sendall(header + payload)`
K_Send ==
    /\ codec.pc = "send"
    /\ codec' = [codec EXCEPT !.pc = "header",
                              !.wrote = [header |-> U32BE(codec.plen),
                                         payload |-> codec.plen]]
    /\ UNCHANGED <<connected, others>>

\* recv_all: `packet = sock.recv(n - len(data)); data += packet`
K_Recv ==
    /\ codec.pc \in {"header", "body"}
    /\ Len(codec.data) < codec.need
    /\ \E k \in 1..Min(codec.need - Len(codec.data), Len(codec.wire)) :
          codec' = [codec EXCEPT !.data = @ \o SubSeq(codec.wire, 1, k),
                                 !.wire = SubSeq(@, k + 1, Len(@)),
                                 !.calls = @ + 1]
    /\ UNCHANGED <<connected, others>>

\* recv returns b'': recv_all returns None, `self.connected = False`,
\* ConnectionError.
K_Eof ==
    /\ codec.pc \in {"header", "body"}
    /\ Len(codec.data) < codec.need
    /\ codec.wire = <<>>
    /\ codec.eof
    /\ codec' = CodecEnd(Out("ConnectionError", PyNone))
    /\ connected' = FALSE
    /\ UNCHANGED others

\* `length = struct.unpack(">I", header)[0]` above the limit: ProtocolError.
K_TooLarge ==
    /\ codec.pc = "header"
    /\ Len(codec.data) = HEADER_LEN
    /\ U32(codec.data) > MAX_MESSAGE_SIZE
    /\ codec' = CodecEnd(Out("ProtocolError", PyNone))
    /\ UNCHANGED <<connected, others>>

\* `data = recv_all(length)` for a length within the limit and above zero.
K_Body ==
    /\ codec.pc = "header"
    /\ Len(codec.data) = HEADER_LEN
    /\ U32(codec.data) <= MAX_MESSAGE_SIZE
    /\ U32(codec.data) > 0
    /\ codec' = [codec EXCEPT !.pc = "body", !.need = U32(codec.data), !.data = <<>>]
    /\ UNCHANGED <<connected, others>>

\* recv_all(0) returns b'' and `if not data` takes it for a closed stream.
K_EmptyBody ==
    /\ codec.pc = "header"
    /\ Len(codec.data) = HEADER_LEN
    /\ U32(codec.data) = 0
    /\ codec' = CodecEnd(Out("ConnectionError", PyNone))
    /\ connected' = FALSE
    /\ UNCHANGED others

\* K_Decode with a payload that fails to unpack taken for a lost connection.
K_DecodeDropsFlag ==
    /\ codec.pc = "body"
    /\ Len(codec.data) = codec.need
    /\ LET u == unpackb(codec.data)
       IN /\ codec' = IF u.ok
                      THEN [CodecEnd(Api(codec.op, Interpret(u.v))) EXCEPT !.ok = TRUE, !.dec = u.v]
                      ELSE CodecEnd(Out("ProtocolError", PyNone))
          /\ connected' = u.ok
    /\ UNCHANGED others

\* The payload is complete: unpackb, the envelope rules, and the public call's
\* own return.
K_Decode ==
    /\ codec.pc = "body"
    /\ Len(codec.data) = codec.need
    /\ LET u == unpackb(codec.data)
       IN codec' = IF u.ok
                   THEN [CodecEnd(Api(codec.op, Interpret(u.v))) EXCEPT !.ok = TRUE, !.dec = u.v]
                   ELSE CodecEnd(Out("ProtocolError", PyNone))
    /\ UNCHANGED <<connected, others>>

CodecNext ==
    \/ K_Select \/ K_Send \/ K_Recv \/ K_Eof \/ K_TooLarge \/ K_Body \/ K_EmptyBody \/ K_Decode

SpecCodec == InitCodec /\ [][CodecNext]_vars

\* --------------------------------------------- the management HTTP path
\* The object as __init__ leaves it: host, port and _database are bound,
\* http_port and _token are not attributes of it.
FreshHttp == [NoHttp EXCEPT !.pc = "idle"]

\* The same object after the host application has bound http_port, and
\* possibly _token = None, from outside the class.
PatchedHttp(tok) == [FreshHttp EXCEPT !.port = "set", !.token = tok, !.fresh = FALSE]

InitHttp ==
    /\ Init
    /\ pool_size = 1
    /\ nthreads = 1
    /\ codec = NoCodec
    /\ work = NoWork
    /\ http \in {FreshHttp, PatchedHttp("unset"), PatchedHttp("none")}

HttpEnd(k, v) == [http EXCEPT !.pc = "idle", !.res = [kind |-> k, val |-> v]]

HttpCall(name, d, a) ==
    [http EXCEPT !.op = [name |-> name, db |-> d, accept |-> a],
                 !.res = [kind |-> "none", val |-> "none"],
                 !.auth = "none",
                 !.n = @ + 1]

\* login(database, username, password) enters _http_post("/auth/login", ...);
\* `a` tells whether the server will accept the credentials.
H_Login(d, a) ==
    /\ http.pc = "idle"
    /\ http.n < MaxHttpOps
    /\ http' = [HttpCall("login", d, a) EXCEPT !.pc = "url"]
    /\ UNCHANGED <<wire, work>>

\* use_database(name): `self._database = name`.
H_UseDatabase(d) ==
    /\ http.pc = "idle"
    /\ http.n < MaxHttpOps
    /\ http' = [HttpCall("use_database", d, FALSE) EXCEPT
                   !.database = d, !.res = [kind |-> "ok", val |-> "none"]]
    /\ UNCHANGED <<wire, work>>

\* A management call of a sub-client. A database-scoped one builds its path
\* from the `database` property, which raises ValueError when none is set.
H_Manage(scoped) ==
    /\ http.pc = "idle"
    /\ http.n < MaxHttpOps
    /\ http' = IF scoped /\ http.database = "none"
               THEN [HttpCall("manage", "none", FALSE) EXCEPT
                        !.res = [kind |-> "ValueError", val |-> "none"]]
               ELSE [HttpCall("manage", "none", FALSE) EXCEPT !.pc = "url"]
    /\ UNCHANGED <<wire, work>>

\* `url = f"http://{self.host}:{self.http_port}{path}"`: reading an attribute
\* the object does not have raises AttributeError.
H_Url ==
    /\ http.pc = "url"
    /\ http' = IF http.port = "unset"
               THEN HttpEnd("AttributeError", "none")
               ELSE [http EXCEPT !.pc = "headers"]
    /\ UNCHANGED <<wire, work>>

\* `if self._token: headers["Authorization"] = f"Bearer {self._token}"`, then
\* the request is built and sent.
H_Headers ==
    /\ http.pc = "headers"
    /\ http' = IF http.token = "unset"
               THEN HttpEnd("AttributeError", "none")
               ELSE [http EXCEPT !.pc = "wait",
                                 !.auth = IF http.token = "none" THEN "none" ELSE http.token,
                                 !.sent = @ + 1]
    /\ UNCHANGED <<wire, work>>

\* A 2xx answer: the body is returned; the login answer carries a token.
H_Ok(tk) ==
    /\ http.pc = "wait"
    /\ http.op.name = "login" => http.op.accept
    /\ http' = IF http.op.name = "login"
               THEN [http EXCEPT !.pc = "store", !.res = [kind |-> "none", val |-> tk]]
               ELSE HttpEnd("ok", "none")
    /\ UNCHANGED <<wire, work>>

\* HTTPError: 401 and 403 raise AuthError.
H_HttpError ==
    /\ http.pc = "wait"
    /\ http.op.name = "login" => ~http.op.accept
    /\ http' = HttpEnd("AuthError", "none")
    /\ UNCHANGED <<wire, work>>

\* URLError: ConnectionError.
H_UrlError ==
    /\ http.pc = "wait"
    /\ http' = HttpEnd("ConnectionError", "none")
    /\ UNCHANGED <<wire, work>>

\* login: `self._token = result.get("token"); self._database = database`.
H_Store ==
    /\ http.pc = "store"
    /\ http' = [HttpEnd("ok", http.res.val) EXCEPT
                   !.token = http.res.val, !.database = http.op.db]
    /\ UNCHANGED <<wire, work>>

HttpNext ==
    \/ \E d \in Dbs, a \in BOOLEAN : H_Login(d, a)
    \/ \E d \in Dbs : H_UseDatabase(d)
    \/ \E scoped \in BOOLEAN : H_Manage(scoped)
    \/ H_Url
    \/ H_Headers
    \/ \E tk \in Tokens : H_Ok(tk)
    \/ H_HttpError
    \/ H_UrlError
    \/ H_Store

SpecHttp == InitHttp /\ [][HttpNext]_vars

\* ------------------------------------------------ the example worker loops
\* The pending tasks as the poll returns them.
RECURSIVE PendingFrom(_, _)
PendingFrom(st, t) ==
    IF t > MaxTasks THEN <<>>
    ELSE IF st[t] = "pending" THEN <<t>> \o PendingFrom(st, t + 1)
    ELSE PendingFrom(st, t + 1)

\* The task service's answer to a claim: the first claim of a pending task
\* gets 200, any other 409.
ClaimStatus(t) == IF work.status[t] = "pending" THEN 200 ELSE 409

\* The task service after worker w's claim of task t.
Claimed(t, w) ==
    IF work.status[t] = "pending"
    THEN [work EXCEPT !.status[t] = "claimed", !.owner[t] = w]
    ELSE work

\* The task service after a report on task t: a claimed task takes the
\* reported state.
Reported(wk, t, st) ==
    IF wk.status[t] = "claimed" THEN [wk EXCEPT !.status[t] = st] ELSE wk

\* Two loops, each a webhook bridge or an AI-provider worker, started on a
\* list of pending tasks.
InitWork ==
    /\ Init
    /\ pool_size = 1
    /\ nthreads = 1
    /\ codec = NoCodec
    /\ http = NoHttp
    /\ \E k \in [Workers -> {"bridge", "ai"}], wt \in [Tasks -> BOOLEAN] :
          work = [NoWork EXCEPT !.kind = k, !.wanted = wt,
                                !.status = [t \in Tasks |-> "pending"],
                                !.pc = [w \in Workers |-> "poll"]]

\* `resp = requests.get(.../ai/tasks?status=pending)`; `tasks = ...`.
W_Poll(w) ==
    /\ work.pc[w] = "poll"
    /\ work.rounds[w] < MaxRounds
    /\ work' = [work EXCEPT !.pc[w] = "next",
                            !.todo[w] = PendingFrom(work.status, 1),
                            !.rounds[w] = @ + 1]
    /\ UNCHANGED <<wire, http>>

\* `for task in tasks:`; after the last one the loop sleeps and polls again.
W_Next(w) ==
    /\ work.pc[w] = "next"
    /\ work' = IF work.todo[w] = <<>>
               THEN [work EXCEPT !.pc[w] = "poll", !.cur[w] = 0, !.claim[w] = 0]
               ELSE [work EXCEPT !.pc[w] = "task",
                                 !.cur[w] = Head(work.todo[w]),
                                 !.todo[w] = Tail(@),
                                 !.claim[w] = 0]
    /\ UNCHANGED <<wire, http>>

\* AI worker: `if task_type not in [...]: continue`.
A_Skip(w) ==
    /\ work.pc[w] = "task"
    /\ work.kind[w] = "ai"
    /\ ~work.wanted[work.cur[w]]
    /\ work' = [work EXCEPT !.pc[w] = "next"]
    /\ UNCHANGED <<wire, http>>

\* AI worker: `claim = requests.post(.../claim)`; `if claim.status_code == 200:`.
A_Claim(w) ==
    /\ work.pc[w] = "task"
    /\ work.kind[w] = "ai"
    /\ work.wanted[work.cur[w]]
    /\ LET t == work.cur[w]
           c == ClaimStatus(t)
       IN work' = [Claimed(t, w) EXCEPT !.claim[w] = c,
                                        !.pc[w] = IF c = 200 THEN "process" ELSE "next"]
    /\ UNCHANGED <<wire, http>>

\* Bridge: `requests.post(.../claim, ...)`, the answer dropped.
B_Claim(w) ==
    /\ work.pc[w] = "task"
    /\ work.kind[w] = "bridge"
    /\ LET t == work.cur[w]
       IN work' = [Claimed(t, w) EXCEPT !.claim[w] = ClaimStatus(t),
                                        !.pc[w] = "process"]
    /\ UNCHANGED <<wire, http>>

\* AI worker: the provider is called with the task; it answers or fails.
A_Process(w, ok) ==
    /\ work.pc[w] = "process"
    /\ work.kind[w] = "ai"
    /\ work' = [work EXCEPT !.forwarded[work.cur[w]] = @ \cup {w},
                            !.pc[w] = IF ok THEN "complete" ELSE "fail"]
    /\ UNCHANGED <<wire, http>>

\* Bridge: the task is posted to the webhook; it answers or raises.
B_Forward(w, ok) ==
    /\ work.pc[w] = "process"
    /\ work.kind[w] = "bridge"
    /\ work' = [work EXCEPT !.forwarded[work.cur[w]] = @ \cup {w},
                            !.pc[w] = IF ok THEN "complete" ELSE "fail"]
    /\ UNCHANGED <<wire, http>>

\* `requests.post(.../complete, json={"output": ...})`.
W_Complete(w) ==
    /\ work.pc[w] = "complete"
    /\ LET t == work.cur[w]
       IN work' = [Reported(work, t, "completed") EXCEPT
                      !.reported[t] = @ \cup {w}, !.pc[w] = "next"]
    /\ UNCHANGED <<wire, http>>

\* `requests.post(.../fail, json={"error": ...})`.
W_Fail(w) ==
    /\ work.pc[w] = "fail"
    /\ LET t == work.cur[w]
       IN work' = [Reported(work, t, "failed") EXCEPT
                      !.reported[t] = @ \cup {w}, !.pc[w] = "next"]
    /\ UNCHANGED <<wire, http>>

WorkNext ==
    \E w \in Workers :
        \/ W_Poll(w)
        \/ W_Next(w)
        \/ A_Skip(w)
        \/ A_Claim(w)
        \/ B_Claim(w)
        \/ \E ok \in BOOLEAN : A_Process(w, ok)
        \/ \E ok \in BOOLEAN : B_Forward(w, ok)
        \/ W_Complete(w)
        \/ W_Fail(w)

SpecWork == InitWork /\ [][WorkNext]_vars

\* ================================================================ claims
Active == 1..nthreads

\* The invoke of thread t has written its request frame and has not yet read
\* the whole response frame.
InCycle(t) ==
    \/ th[t].pc = "r_header"
    \/ th[t].pc = "r_body" /\ Total(th[t].data) < th[t].need

\* The invoke of thread t holds the connection _get_next_socket returned.
Holding(t) == th[t].pc \in {"s_send", "r_header", "r_body"}

\* The invoke of thread t returned the response to its own request.
GotOwn(t) ==
    /\ th[t].pc = "idle"
    /\ th[t].op = "invoke"
    /\ th[t].res.kind = "ok"
    /\ th[t].res.rid = th[t].rid

\* C1: at no time are two request/response cycles in progress on the same
\* connection, for any number of threads invoking commands on one client.
C1_OneCyclePerConnection ==
    \A t, u \in Active :
        (t # u /\ InCycle(t) /\ InCycle(u)) => th[t].sock # th[u].sock

\* C2: on a connected pool with a healthy peer, when never more than pool_size
\* invocations are in flight, no two in-flight invocations hold the same
\* connection and every finished invoke returned the response to its own request.
C2_AtMostPoolSizeInFlightIsSafe ==
    nthreads <= pool_size =>
        /\ \A t, u \in Active :
              (t # u /\ Holding(t) /\ Holding(u)) => th[t].sock # th[u].sock
        /\ \A t \in Active :
              (th[t].pc = "idle" /\ th[t].op = "invoke") => GotOwn(t)

\* Exactly pool_size threads, each having issued at most its one command.
OneCommandEach ==
    /\ nthreads = pool_size
    /\ \A t \in Active : th[t].cnt <= 1

\* Thread t has been through _get_next_socket in its command.
Selected(t) ==
    th[t].op = "invoke" /\ th[t].pc \in {"g_advance", "s_send", "r_header", "r_body", "idle"}

\* A step of the exchange other than a caller starting a command.
ExchangeStep ==
    \/ \E t \in Threads :
          \/ SC_CheckConnected(t) \/ SC_CheckPool(t)
          \/ G_Acquire(t) \/ G_Select(t) \/ G_Advance(t)
          \/ S_Send(t) \/ R_Recv(t) \/ R_Body(t) \/ R_Decode(t)
    \/ \E s \in SockIds : ServerRespond(s)

\* C3: when exactly pool_size threads each issue one command on a connected
\* pool, from any cursor value, the selections return distinct connections,
\* every finished command returned the response to its own request, and a
\* command that has not finished can always take a further step.
C3_PoolSizeConcurrentCommands ==
    OneCommandEach =>
        /\ \A t, u \in Active :
              (t # u /\ Selected(t) /\ Selected(u)) => th[t].sock # th[u].sock
        /\ \A t \in Active :
              (th[t].pc = "idle" /\ th[t].op = "invoke") => GotOwn(t)
        /\ (\E t \in Active : th[t].pc # "idle") => ENABLED ExchangeStep

\* Two threads on a pool of two, started from the cursor at 1, have both
\* received their own responses.
C3_Witness ==
    /\ pool_size = 2
    /\ nthreads = 2
    /\ nops = 2
    /\ pool_index = 1
    /\ GotOwn(1)
    /\ GotOwn(2)
    /\ th[1].sock # th[2].sock

\* ------------------------------------------------------------------ C4
\* The step on which a failed bring-up raises.
BringUpRaises(t) == th[t].pc = "c_fail" /\ th'[t].pc = "idle"

\* C4: bring-up is all-or-nothing for a lone caller: when creating a connection
\* fails, connect() raises ConnectionError with every connection this bring-up
\* had created closed, the pool empty and connected false; and connected is
\* never true with a pool of fewer than pool_size connections.
C4_BringUpAllOrNothing ==
    /\ [](connected => Len(lists[pool]) = pool_size)
    /\ [][\A t \in Active : BringUpRaises(t) =>
              /\ th'[t].res.kind = "ConnectionError"
              /\ \A s \in 1..Len(socks') :
                    (s > th[t].s_nsock /\ socks'[s].hs) => socks'[s].st = "closed"
              /\ lists'[pool'] = <<>>
              /\ ~connected']_vars

\* A bring-up of a pool of two failed on its second connection: the first one
\* was created and is closed.
C4_Witness ==
    /\ pool_size = 2
    /\ th[1].pc = "idle"
    /\ th[1].res.cause = "bringup"
    /\ th[1].ns = 1
    /\ Len(socks) >= 1
    /\ socks[1].hs
    /\ socks[1].st = "closed"
    /\ lists[pool] = <<>>
    /\ ~connected

\* ------------------------------------------------------------------ C5
\* The next send or recv of thread t's invoke cannot succeed: its socket is
\* closed or reset, or the peer closed with nothing left to read of a header or
\* body that is still incomplete.
IoFailure(t) ==
    \/ /\ th[t].pc = "s_send"
       /\ socks[th[t].sock].st = "closed" \/ socks[th[t].sock].net = "reset"
    \/ /\ th[t].pc \in {"r_header", "r_body"}
       /\ Total(th[t].data) < th[t].need
       /\ \/ socks[th[t].sock].st = "closed"
          \/ socks[th[t].sock].net = "reset"
          \/ socks[th[t].sock].net = "eof" /\ Total(socks[th[t].sock].inb) = 0

RaisedDisconnected(t) ==
    /\ th'[t].pc = "idle"
    /\ th'[t].res.kind = "ConnectionError"
    /\ ~connected'

\* C5: an I/O error on send or receive, or the peer closing before the whole
\* header or body was read, makes the invoke raise ConnectionError with the
\* client-wide connected flag false.
C5_IoFailureDisconnects ==
    [][\A t \in Active :
          /\ (IoFailure(t) /\ th'[t] # th[t]) => RaisedDisconnected(t)
          /\ (th[t].pc = "s_send" /\ th'[t].pc = "idle") => RaisedDisconnected(t)]_vars

\* The peer closed after 2 of the 4 header bytes, on one connection of a pool
\* of two whose other connection is healthy.
C5_Witness ==
    /\ pool_size = 2
    /\ \E t \in Active :
          /\ th[t].pc = "idle"
          /\ th[t].res.cause = "eof_header"
          /\ th[t].res.got = 2
    /\ ~connected
    /\ \E s \in Range(lists[pool]) : socks[s].st = "open" /\ socks[s].net = "up"

\* ------------------------------------------------------------------ C6
\* Thread t is past the connectivity checks of _send_command and connect().
PastChecks(t) ==
    th[t].pc \notin {"idle", "sc_check", "sc_pool", "c_check", "c_pool", "c_reset"}

\* C6: for a lone caller, an invoke (or connect()) attempts a bring-up exactly
\* when the client was not connected at its start; a bring-up that succeeds
\* leaves a pool of exactly pool_size connections, all opened and handshaken by
\* it; started on a connected client, the call opens no socket and leaves the
\* pool as it was.
C6_BringUpIffDisconnected ==
    /\ [](\A t \in Active :
            (th[t].op \in {"invoke", "connect"} /\ th[t].pc # "idle") =>
                /\ th[t].nb > 0 => ~th[t].s_conn
                /\ PastChecks(t) => (th[t].nb = 1 <=> ~th[t].s_conn)
                /\ th[t].s_conn => (Len(socks) = th[t].s_nsock /\ lists[pool] = th[t].s_pool))
    /\ [][\A t \in Active :
            (th[t].pc = "c_loop" /\ ~connected /\ connected') =>
                /\ th[t].ns = pool_size
                /\ Len(socks') = th[t].s_nsock + pool_size
                /\ lists'[pool'] = [x \in 1..pool_size |-> th[t].s_nsock + x]
                /\ \A s \in Range(lists'[pool']) :
                      socks'[s].hs /\ socks'[s].st = "open"]_vars

\* An invoke that found the client marked disconnected by an earlier failure
\* has rebuilt the pool of two with two new connections.
C6_Witness ==
    /\ pool_size = 2
    /\ xmark = 0
    /\ th[1].op = "invoke"
    /\ th[1].pc = "s_send"
    /\ th[1].nb = 1
    /\ th[1].s_nsock = 2
    /\ ~th[1].s_conn
    /\ lists[pool] = <<3, 4>>
    /\ connected

\* ------------------------------------------------------------------ C7
\* C7: one invoke attempts at most one bring-up and writes at most one request
\* frame; a failed bring-up ends it with ConnectionError and no frame written;
\* from sending or receiving it goes nowhere but to its end.
C7_NoRetryWithinInvoke ==
    /\ [](\A t \in Active :
            /\ th[t].nb <= 1
            /\ th[t].nf <= 1
            /\ th[t].res.cause = "bringup" =>
                  (th[t].nf = 0 /\ th[t].res.kind = "ConnectionError"))
    /\ [][\A t \in Active :
            (Holding(t) /\ ~Holding(t)') => th'[t].pc = "idle"]_vars

\* An invoke brought the pool up, wrote its frame and failed while receiving.
C7_Witness ==
    \E t \in Active :
        /\ th[t].pc = "idle"
        /\ th[t].op = "invoke"
        /\ th[t].nb = 1
        /\ th[t].nf = 1
        /\ th[t].res.kind = "ConnectionError"
        /\ th[t].res.cause \in {"recv", "eof_header", "eof_body"}
        /\ ~connected

\* ------------------------------------------------------------------ C8
\* An invoke of thread t ended on detecting disconnection.
DetectedDisconnection(t) ==
    /\ th[t].pc = "idle"
    /\ th[t].op = "invoke"
    /\ th[t].res.kind = "ConnectionError"
    /\ th[t].res.cause \in {"send", "recv", "eof_header", "eof_body"}

\* C8: when an invoke detects disconnection the pool's connections are closed,
\* and every handshaken connection the client opened is either a member of the
\* current pool or closed.
C8_NoOrphanedOpenSocket ==
    /\ \A t \in Active :
          DetectedDisconnection(t) =>
              \A s \in Range(lists[pool]) : socks[s].st = "closed"
    /\ \A s \in 1..Len(socks) :
          socks[s].hs => (socks[s].st = "closed" \/ s \in Range(lists[pool]))

\* ------------------------------------------------------------------ C9
\* C9: for a lone caller, when close() returns every connection that was in the
\* pool is closed, the pool is empty and connected is false; close() on a client
\* with an empty pool and connected false changes neither and raises nothing;
\* and every request frame written afterwards goes to a connection opened after
\* that close.
C9_CloseTearsDown ==
    [][\A t \in Active :
          /\ (th[t].pc = "x_loop" /\ th'[t].pc = "idle") =>
                /\ \A s \in Range(th[t].s_pool) : socks'[s].st = "closed"
                /\ lists'[pool'] = <<>>
                /\ ~connected'
                /\ th'[t].res.kind = "ok"
          /\ (th[t].op = "close" /\ th[t].pc # "idle" /\ th'[t] # th[t]
                /\ th[t].s_pool = <<>> /\ ~th[t].s_conn) =>
                /\ socks' = socks
                /\ lists'[pool'] = <<>>
                /\ ~connected'
                /\ pool_index' = pool_index
                /\ th'[t].pc = "idle" => th'[t].res.kind = "ok"
          /\ (th[t].pc = "s_send" /\ th'[t].pc = "r_header") => th[t].sock > xmark]_vars

\* After a close() that closed the pool's first connection, a later invoke has
\* written its frame on a connection opened since.
C9_Witness ==
    /\ xmark >= 1
    /\ socks[1].hs
    /\ socks[1].st = "closed"
    /\ th[1].op = "invoke"
    /\ th[1].pc = "r_header"
    /\ th[1].sock > xmark

\* ----------------------------------------------------------------- C10
\* C10: an invoke that ran while another thread's close() did (the only two
\* operations, with a healthy peer) ends with its response or a
\* ConnectionError, never with an untyped exception.
C10_CloseFailsInvokesTyped ==
    \A t, u \in Active :
        (/\ nops = 2
         /\ nfaults = 0
         /\ th[u].op = "close"
         /\ th[t].op = "invoke"
         /\ th[t].pc = "idle") =>
            \/ GotOwn(t)
            \/ th[t].res.kind = "ConnectionError"

\* ----------------------------------------------------------------- C11
\* C11: the preamble is 14 bytes long; every connection held by a list of the
\* pool or selected by an invoke has had the whole preamble written to it; a
\* connection's preamble is written when the connection is created and never
\* again; and a request frame is only ever written to a connection that has it.
C11_PreambleBeforeCommands ==
    /\ [](Len(MAGIC_HEADER) = 14)
    /\ [](\A k \in Slots : \A s \in Range(lists[k]) : socks[s].hs)
    /\ [](\A t \in Active : th[t].sock # 0 => socks[th[t].sock].hs)
    /\ [][\A s \in 1..Len(socks) : socks'[s].hs = socks[s].hs]_vars
    /\ [][\A t \in Active :
            (th[t].pc = "s_send" /\ th'[t].pc = "r_header") =>
                /\ socks[th[t].sock].hs
                /\ socks'[th[t].sock].hs]_vars

\* A bring-up failed while writing a preamble, and a later invoke has written
\* its frame to a connection of the rebuilt pool.
C11_Witness ==
    /\ \E s \in 1..Len(socks) : ~socks[s].hs
    /\ \E t \in Active :
          /\ th[t].pc = "r_header"
          /\ th[t].sock \in Range(lists[pool])
          /\ socks[th[t].sock].hs

\* ----------------------------------------------------------------- C12
\* The four bytes recv_all(4) returned are the header of one frame.
WholeHeader(d) == Len(d) = 1 /\ d[1].kind = "h" /\ d[1].n = HEADER_LEN

\* C12: once the header is read, a declared length above MAX_MESSAGE_SIZE ends
\* the invoke with ProtocolError on that very step, with no byte taken from the
\* connection; a declared length of exactly MAX_MESSAGE_SIZE goes on to read a
\* body of that many bytes, and what it has read when done is that body.
C12_FrameLengthLimit ==
    /\ [][\A t \in Active :
            (th[t].pc = "r_header" /\ WholeHeader(th[t].data) /\ th'[t] # th[t]) =>
                /\ th[t].data[1].len > MAX_MESSAGE_SIZE =>
                      /\ th'[t].pc = "idle"
                      /\ th'[t].res.kind = "ProtocolError"
                      /\ socks' = socks
                /\ th[t].data[1].len = MAX_MESSAGE_SIZE =>
                      /\ th'[t].pc = "r_body"
                      /\ th'[t].need = MAX_MESSAGE_SIZE
                      /\ th'[t].data = <<>>]_vars
    /\ [](\A t \in Active :
            (th[t].pc = "r_body" /\ th[t].need = MAX_MESSAGE_SIZE /\ th[t].hrid = th[t].rid
                /\ Total(th[t].data) = th[t].need) =>
                th[t].data = <<Seg(th[t].rid, "b", 0, MAX_MESSAGE_SIZE)>>)

\* A frame declaring MAX_MESSAGE_SIZE + 1 bytes was refused, its body still
\* unread on its connection, and on the pool's other connection a body of
\* exactly MAX_MESSAGE_SIZE bytes has been read.
C12_Witness ==
    /\ th[1].pc = "r_body"
    /\ th[1].need = MAX_MESSAGE_SIZE
    /\ th[1].data = <<Seg(th[1].rid, "b", 0, MAX_MESSAGE_SIZE)>>
    /\ \E s \in 1..Len(socks) :
          /\ s # th[1].sock
          /\ socks[s].inb = <<Seg(th[1].rid - 1, "b", 0, MAX_MESSAGE_SIZE + 1)>>

\* ----------------------------------------------------------------- C13
\* C13: the 4-byte header is the payload length, most significant byte first,
\* and reads back as that length up to MAX_MESSAGE_SIZE; and the frame of any
\* value (a command among them), whose payload is never empty, handed to the
\* receive routine in any chunks: is read as a body of the payload's length,
\* reassembled into exactly the payload, decoded to exactly the value, ends as
\* the envelope rules end on that value whatever the chunks were, leaves the
\* client connected, and at every point short of its end has either the bytes
\* it is waiting for or more of them to read.
C13_FramingRoundTrip ==
    /\ \A n \in {1, 255, 256, 65535, 65536, MAX_MESSAGE_SIZE} :
          Len(U32BE(n)) = HEADER_LEN /\ U32(U32BE(n)) = n
    /\ U32BE(258) = <<0, 0, 1, 2>>
    /\ codec.src = "frame" =>
          /\ Len(Pack(codec.val)) \in 1..255
          /\ codec.sent = <<0, 0, 0, Len(Pack(codec.val))>> \o Pack(codec.val)
          /\ codec.pc = "body" => codec.need = Len(Pack(codec.val))
          /\ (codec.pc = "body" /\ Len(codec.data) = codec.need) =>
                codec.data = Pack(codec.val)
          /\ codec.pc = "done" =>
                /\ codec.ok
                /\ codec.data = Pack(codec.val)
                /\ codec.dec = codec.val
                /\ codec.res = Api(codec.op, Interpret(codec.val))
                /\ codec.wire = <<>>
                /\ connected
          /\ codec.pc # "done" =>
                \/ Len(codec.data) = codec.need
                \/ Len(codec.data) < codec.need /\ codec.wire # <<>>

\* The frame of a command with a nested map and a list among its arguments
\* was delivered one byte per recv and decoded.
C13_Witness ==
    /\ codec.src = "frame"
    /\ codec.val \in Commands
    /\ Len(codec.val.e) = 6
    /\ codec.pc = "done"
    /\ codec.calls = Len(codec.sent)
    /\ codec.dec = codec.val

\* ----------------------------------------------------------------- C14
\* The bytes are one whole frame: a header declaring a length up to
\* MAX_MESSAGE_SIZE and exactly that many bytes after it.
WholeFrame(b) ==
    /\ Len(b) >= HEADER_LEN
    /\ U32(SubSeq(b, 1, HEADER_LEN)) <= MAX_MESSAGE_SIZE
    /\ Len(b) = HEADER_LEN + U32(SubSeq(b, 1, HEADER_LEN))

\* C14: a frame received whole, of any declared length from 0 up, never ends in
\* ConnectionError and never clears connected; ConnectionError is raised only
\* when the peer closed before the frame was whole; and a whole frame whose
\* payload msgpack rejects ends in ProtocolError.
C14_WholeFrameNoConnectivityFailure ==
    codec.pc = "done" =>
        /\ WholeFrame(codec.sent) => (codec.res.kind # "ConnectionError" /\ connected)
        /\ codec.res.kind = "ConnectionError" => (codec.eof /\ ~WholeFrame(codec.sent))
        /\ (WholeFrame(codec.sent)
              /\ ~unpackb(SubSeq(codec.sent, HEADER_LEN + 1, Len(codec.sent))).ok) =>
                codec.res.kind = "ProtocolError"

\* ----------------------------------------------------------- C15 .. C18
\* The call ended on a response that msgpack decoded.
Decoded == codec.pc = "done" /\ codec.ok
\* A list of two elements whose first is a string.
StatusPair(v) == v.t = "list" /\ Len(v.e) = 2 /\ v.e[1].t = "str"
\* The printed form of a value that is not a string.
Printed(v) == Mk("str_of", 0, <<>>, <<v>>)

\* C15: on a decoded pair [status, body] whose status is a string other than
\* "error", a command returns body as it was decoded and raises nothing.
C15_NonErrorPairReturnsBody ==
    (Decoded /\ codec.op = "send_command" /\ StatusPair(codec.dec)
        /\ codec.dec.e[1].c # c_error) =>
            /\ codec.res = Out("return", codec.dec.e[2])
            /\ connected

\* The pair ["new", {"k": "v", "v": 1}], of a status the client does not know,
\* gave back its body.
C15_Witness ==
    /\ Decoded
    /\ codec.op = "send_command"
    /\ codec.dec = PyList(<<PyStr(c_new),
                            PyDict(<<PyStr(c_k), PyStr(c_v), PyStr(c_v), PyInt(1)>>)>>)
    /\ codec.res = Out("return", PyDict(<<PyStr(c_k), PyStr(c_v), PyStr(c_v), PyInt(1)>>))

\* C16: on a decoded pair ["error", body] the call raises ServerError whose
\* message is body when body is a string, the one value of body when body is a
\* map of one entry, and the printed form of body otherwise.
C16_ErrorPairRaisesServerError ==
    (Decoded /\ StatusPair(codec.dec) /\ codec.dec.e[1].c = c_error) =>
        LET body == codec.dec.e[2]
        IN /\ codec.res.kind = "ServerError"
           /\ codec.res.val = IF body.t = "str" THEN body
                               ELSE IF body.t = "dict" /\ Len(body.e) = 2 THEN body.e[2]
                               ELSE Printed(body)

\* ["error", {"k": "v"}] raised ServerError("v").
C16_Witness ==
    /\ Decoded
    /\ codec.dec = PyList(<<PyStr(c_error), PyDict(<<PyStr(c_k), PyStr(c_v)>>)>>)
    /\ codec.res = Out("ServerError", PyStr(c_v))

\* The map has the key; the value it has for it.
HasKey(d, key) == \E i \in 1..Len(d.e) : i % 2 = 1 /\ d.e[i] = PyStr(key)
ValueOf(d, key) == d.e[(CHOOSE i \in 1..Len(d.e) : i % 2 = 1 /\ d.e[i] = PyStr(key)) + 1]

\* C17: on a decoded map, a command raises ServerError when its status is
\* "error", the message being the error field (as text; "Unknown error" when
\* there is none); returns the data field (None when there is none) when its
\* status is "ok"; and returns the map itself for any other or no status.
C17_LegacyMap ==
    (Decoded /\ codec.op = "send_command" /\ codec.dec.t = "dict") =>
        LET d == codec.dec
            status == IF HasKey(d, c_status) THEN ValueOf(d, c_status) ELSE PyNone
        IN IF status = PyStr(c_error)
           THEN /\ codec.res.kind = "ServerError"
                /\ codec.res.val =
                      IF ~HasKey(d, c_error) THEN PyStr(c_unknown_error)
                      ELSE IF ValueOf(d, c_error).t = "str" THEN ValueOf(d, c_error)
                      ELSE Printed(ValueOf(d, c_error))
           ELSE IF status = PyStr(c_ok)
           THEN codec.res = Out("return", IF HasKey(d, c_data) THEN ValueOf(d, c_data)
                                          ELSE PyNone)
           ELSE codec.res = Out("return", d)

\* {"status": "error"}, with no error field, raised ServerError("Unknown error").
C17_Witness ==
    /\ Decoded
    /\ codec.op = "send_command"
    /\ codec.dec = PyDict(<<PyStr(c_status), PyStr(c_error)>>)
    /\ codec.res = Out("ServerError", PyStr(c_unknown_error))

\* C18: a decoded value that is neither a pair [status, body] with a string
\* status nor a map is what a command returns, as decoded.
C18_OtherValuesUnchanged ==
    (Decoded /\ codec.op = "send_command" /\ ~StatusPair(codec.dec)
        /\ codec.dec.t # "dict") =>
            codec.res = Out("return", codec.dec)

\* ----------------------------------------------------------------- C19
\* C19: once an auth command has succeeded, a command that has written its
\* request frame wrote it to a connection on which an auth command succeeded.
C19_CommandsAfterAuthAuthorized ==
    \A t \in Active :
        (authed # {} /\ th[t].op = "invoke" /\ th[t].pc \in {"r_header", "r_body"}) =>
            th[t].sock \in authed

\* ----------------------------------------------------------------- C20
\* C20: ping() returns True exactly when the exchange under it ended without
\* an exception, whatever the response body was; it never returns False; and
\* the ServerError, ProtocolError or ConnectionError of the exchange is what
\* ping() raises.
C20_PingReturnsTrue ==
    (codec.pc = "done" /\ codec.op = "ping") =>
        /\ codec.res.kind \in {"return", "ServerError", "ProtocolError", "ConnectionError"}
        /\ codec.res.kind = "return" => codec.res.val = PyBool(TRUE)
        /\ codec.res.kind = "return" <=> (codec.ok /\ Interpret(codec.dec).kind = "return")
        /\ (codec.ok /\ Interpret(codec.dec).kind # "return") =>
              codec.res = Interpret(codec.dec)
        /\ ~codec.ok => codec.res.kind \in {"ProtocolError", "ConnectionError"}

\* The server answered ["pong", false] and ping() returned True.
C20_Witness ==
    /\ codec.pc = "done"
    /\ codec.op = "ping"
    /\ codec.dec = PyList(<<PyStr(c_pong), PyBool(FALSE)>>)
    /\ codec.res = Out("return", PyBool(TRUE))

\* ----------------------------------------------------------------- C21
\* C21: on a freshly constructed client every HTTP call reads only
\* attributes the object has (none ends in AttributeError); an accepted login
\* leaves the returned token and the database on the client; and a management
\* request sent while a token is stored carries that token as its Bearer
\* Authorization header.
C21_LoginStoresTokenForLaterRequests ==
    /\ http.fresh => http.res.kind # "AttributeError"
    /\ (http.pc = "idle" /\ http.op.name = "login" /\ http.res.kind = "ok")
          => (http.token = http.res.val /\ http.database = http.op.db)
    /\ (http.pc = "wait" /\ http.token \in Tokens) => http.auth = http.token

\* ----------------------------------------------------------------- C22
\* C22: the pool never holds more than pool_size connections, and whenever
\* the connected flag is true it holds exactly pool_size.
C22_PoolHoldsPoolSize ==
    /\ Len(lists[pool]) <= pool_size
    /\ connected => Len(lists[pool]) = pool_size

\* ----------------------------------------------------------------- C23
\* The pool is the one the client was connected with: never rebound, no
\* connection added or replaced.
SamePool ==
    /\ Len(socks) = pool_size
    /\ lists[pool] = [x \in 1..pool_size |-> x]

\* Thread t is inside _get_next_socket's `with self._pool_lock:` block.
InSelection(t) == th[t].pc \in {"g_select", "g_advance"}

\* Thread t returns from _get_next_socket in this step.
Returns(t) == th[t].pc = "g_advance" /\ th'[t].pc = "s_send"

\* C23: on a connected pool of size n the selections are serialised (no two
\* callers are inside the selection at once, so no two read the same cursor
\* value), the cursor stays within 0..n-1, each selection returns the
\* connection at the cursor and leaves the cursor one further modulo n, and
\* nothing else moves the cursor: from cursor c the k-th selection returns
\* pool[(c + k) mod n] and leaves the cursor at (c + k + 1) mod n.
C23_RoundRobin ==
    /\ [](\A t, u \in Active : (t # u /\ InSelection(t)) => ~InSelection(u))
    /\ [](SamePool => pool_index \in 0..(pool_size - 1))
    /\ [][(SamePool /\ SamePool') =>
             IF \E t \in Active : Returns(t)
             THEN /\ \A t \in Active :
                        Returns(t) => th[t].sock = lists[pool][pool_index + 1]
                  /\ pool_index' = (pool_index + 1) % pool_size
             ELSE pool_index' = pool_index]_vars

\* Four selections on a pool of two, by two callers: the cursor has gone
\* round twice and every request went out.
C23_Witness ==
    /\ SamePool
    /\ pool_size = 2
    /\ nthreads = 2
    /\ nreq = 4
    /\ \A t \in Active : th[t].pc = "idle" /\ th[t].cnt = 2

\* ----------------------------------------------------------------- C24
\* C24: the client writes no frame whose declared payload length exceeds
\* MAX_MESSAGE_SIZE, and a command whose payload is larger is rejected with
\* nothing written.
C24_SentFramesWithinLimit ==
    /\ codec.wrote.header # <<>> => U32(codec.wrote.header) <= MAX_MESSAGE_SIZE
    /\ codec.plen > MAX_MESSAGE_SIZE => (codec.wrote.header = <<>> /\ codec.wrote.payload = 0)

\* ----------------------------------------------------------------- C25
\* The bytes waiting on connection s start at a frame boundary.
Aligned(s) ==
    \/ socks[s].inb = <<>>
    \/ /\ Head(socks[s].inb).kind = "h"
       /\ Head(socks[s].inb).n = HEADER_LEN

\* C25: with a single caller and a server answering each request with one
\* frame, in order, every invoke that produced a value or a server-reported
\* failure decoded the response frame to its own request, and between
\* commands every pooled connection's stream stands at a frame boundary,
\* whatever commands and failures came before.
C25_ResponsesStayPaired ==
    /\ \A t \in Active :
          (th[t].pc = "idle" /\ th[t].op = "invoke" /\ th[t].res.kind \in {"ok", "garbage"})
              => GotOwn(t)
    /\ (\A t \in Active : th[t].pc = "idle") =>
          \A s \in Range(lists[pool]) :
              (socks[s].st = "open" /\ socks[s].net = "up") => Aligned(s)

\* ----------------------------------------------------------------- C26
\* Thread t's command fails in this step on connection th[t].sock.
FailsOn(t) ==
    /\ th[t].pc \in {"s_send", "r_header", "r_body"}
    /\ th'[t].pc = "idle"
    /\ th'[t].res.kind = "ConnectionError"

\* The pool is complete and no caller is inside connect().
PoolBuilt ==
    /\ Len(lists[pool]) = pool_size
    /\ \A t \in Active : th[t].pc \notin {"c_reset", "c_loop", "c_create", "c_fail"}

\* C26: over a complete pool the connected flag goes from true to false only
\* in a step where close() finishes or where a command fails on a connection
\* that belongs to that pool; a failure on a connection of an earlier pool
\* leaves the flag of the fresh pool alone.
C26_FlagClearedForCurrentPoolOnly ==
    [][(connected /\ ~connected' /\ PoolBuilt) =>
          \E t \in Active :
              \/ th[t].op = "close" /\ th[t].pc = "x_loop" /\ th'[t].pc = "idle"
              \/ FailsOn(t) /\ th[t].sock \in Range(lists[pool])]_vars

\* ----------------------------------------------------------------- C27
\* C27: with a server that answers every request frame with one complete
\* response frame, every invoke a caller has started eventually returns or
\* raises, however many callers share the client.
C27_EveryInvokeEnds ==
    \A t \in Threads : (th[t].pc # "idle") ~> (th[t].pc = "idle")

\* ----------------------------------------------------------------- C28
\* The command ended in ProtocolError on a payload that did not deserialize
\* (the header declared a length within the limit).
DeserializationFailed ==
    /\ codec.pc = "done"
    /\ codec.res.kind = "ProtocolError"
    /\ U32(SubSeq(codec.sent, 1, HEADER_LEN)) <= MAX_MESSAGE_SIZE

\* C28: a command that ended in ServerError or in a deserialization
\* ProtocolError leaves connected true, the pool's members and their
\* connections as they were, has taken exactly one whole frame (header and
\* declared payload) from the stream, has moved the cursor one past the
\* connection it used, and leaves the entry test of the next command false, so
\* that command performs no bring-up.
C28_DecodedFailureKeepsPool ==
    ((codec.pc = "done" /\ codec.res.kind = "ServerError") \/ DeserializationFailed) =>
        /\ connected
        /\ lists[pool] = [x \in 1..pool_size |-> x]
        /\ socks = [x \in 1..pool_size |-> NewSock(TRUE)]
        /\ Len(codec.sent) - Len(codec.wire)
              = HEADER_LEN + U32(SubSeq(codec.sent, 1, HEADER_LEN))
        /\ lists[pool][((pool_index + pool_size - 1) % pool_size) + 1] = codec.sock
        /\ ~NeedsBringUp

\* On a pool of two, a command that used the second connection ended in
\* ServerError with the next response's frame still whole on the stream.
C28_Witness ==
    /\ pool_size = 2
    /\ codec.pc = "done"
    /\ codec.src = "two"
    /\ codec.res.kind = "ServerError"
    /\ codec.sock = 2
    /\ pool_index = 0
    /\ codec.wire = EncodeFrame(PyList(<<PyStr(c_pong), PyBool(TRUE)>>))

\* ----------------------------------------------------------------- C29
\* C29: a caller about to subscript a non-empty pool finds the cursor within
\* it, 0 <= cursor < len(pool), after close() and rebuilds and under
\* concurrent bring-ups.
C29_CursorWithinPool ==
    \A t \in Active :
        (th[t].pc = "g_select" /\ lists[pool] # <<>>) =>
            (0 <= pool_index /\ pool_index < Len(lists[pool]))

\* ----------------------------------------------------------------- C30
\* C30: a worker is forwarding or reporting a task only if its own claim of
\* that task was answered 200, and no task is forwarded or reported by two
\* workers.
C30_OnlyTheClaimerProcesses ==
    /\ \A w \in Workers :
          work.pc[w] \in {"process", "complete", "fail"} => work.claim[w] = 200
    /\ \A t \in Tasks :
          /\ Cardinality(work.forwarded[t]) <= 1
          /\ Cardinality(work.reported[t]) <= 1

====
